---- MODULE Spec2Model ----
(***************************************************************************)
(* Model of the AirPlay (RAOP) player provider of music_assistant:         *)
(* src/music_assistant/server/providers/airplay/__init__.py.               *)
(*                                                                         *)
(* The provider runs on one asyncio event loop.  A coroutine runs without  *)
(* interruption between two awaits that really suspend, so every action    *)
(* below is one such uninterrupted stretch of a coroutine (or one event    *)
(* the loop delivers: a subprocess exiting, a pipe closing, a worker       *)
(* thread finishing).  The cliraop helper and the audio iterator are the   *)
(* environment; what they may do is a nondeterministic choice.             *)
(***************************************************************************)
EXTENDS Integers, Sequences, FiniteSets, TLC

\* ------------------------------------------------------------------ bounds
MaxCalls == 2       \* calls of the provider (play_media, play_stream, cmd_stop, cmd_sync, cmd_unsync)
MaxChunks == 2      \* chunks an audio iterator yields at most
ChunkSize == 2      \* bytes per read of the source pipeline (chunksize, fade_bytes)
MaxItemBytes == 7   \* bytes a source helper produces for one item at most
MaxItems == 2       \* items the queue gives to one queue stream at most
MaxAnalyze == 2     \* __analyze_audio jobs handed to the executor at most

\* --------------------------------------------------------------- constants
RandLo == 1000      \* randint(1000, 8000): lowest value
RandHi == 8000      \* randint(1000, 8000): highest value, randint includes it
FALLBACK_VOLUME == 20   \* the volume of a player with no cached volume

Players == {"p1", "p2", "p3"}     \* the discovered players (AirplayProvider._players)
None == "None"              \* Python's None
CallIds == 1..MaxCalls
\* A stream job is created by one stream task for one player, at most once:
\* the pair names the AirplayStreamJob object.
JobIds == CallIds \X Players

\* The values randint(1000, 8000) is sampled over: both ends of the range.
RemoteIds == {RandLo, RandHi}
\* active_stream = None, and the job of a stop_player task that has none.
NoStream == <<0, "None">>

VARIABLES
    synced_to,      \* Player.synced_to of each player (None: not synced)
    group_childs,   \* Player.group_childs of each player
    player_state,   \* Player.state: "idle", "playing", "paused"
    active_stream,  \* AirPlayPlayer.active_stream: a job or NoStream
    jobs,           \* the AirplayStreamJob objects
    tasks,          \* the _stream_audio tasks, one per play call
    calls,          \* the provider calls that await a cmd_stop
    ncalls,         \* provider calls made so far
    ntp_clock       \* the clock `cliraop -ntp` reads

\* The state of the AirPlay provider.
avars == <<synced_to, group_childs, player_state, active_stream, jobs, tasks,
           calls, ncalls, ntp_clock>>

\* The state of the provider's DACP control server.
VARIABLES
    dacp,           \* the connection _handle_dacp_request handled last
    volume_level,   \* Player.volume_level of each player
    cache           \* the cache entries airplay_prev_volume.<player_id>

dvars == <<dacp, volume_level, cache>>

\* The queue of each player as _stream_audio reads it, and the metadata
\* pushes the stream tasks have scheduled.
VARIABLES
    current_item,   \* queue.current_item of each player's active queue
    send_metadata   \* the _send_metadata tasks each stream task created

mvars == <<current_item, send_metadata>>

\* The state of the HTTP streamer (http_streamer.py), a program of its own.
VARIABLES
    cancelled,      \* the threading.Event of the request: set or not
    request,        \* HTTPStreamer.stream: the request handler on the event loop
    worker,         \* the executor thread of the request and its locals
    gen,            \* the __get_audio_stream generator the worker iterates
    events,         \* the events signalled, in order
    resp,           \* the StreamResponse: bytes passed to write(), write_eof()
    mixer,          \* the locals of __get_queue_stream
    sox_proc,       \* the encoder process of __get_queue_stream and its pipes
    fill_buffer_thread  \* the thread that runs fill_buffer

\* The state of a queue stream only.
qvars == <<mixer, sox_proc, fill_buffer_thread>>

hvars == <<cancelled, request, worker, gen, events, resp, qvars>>

\* The audio analyser of the HTTP streamer (__analyze_audio).
VARIABLES
    analyze_jobs,   \* the keys of HTTPStreamer.analyze_jobs
    analysers,      \* the __analyze_audio calls handed to the executor
    track_loudness  \* the keys the database has a loudness for

nvars == <<analyze_jobs, analysers, track_loudness>>

vars == <<avars, hvars, dvars, mvars, nvars>>

\* HTTPStreamer before any request.
\* player, queue_item: whether the lookups of lines 43 and 48 found one;
\* status, reason: the response the handler returns (0: none yet).
NoRequest ==
    [pc |-> "none", mode |-> "none", crossfade_enabled |-> FALSE,
     player |-> FALSE, queue_item |-> FALSE, status |-> 0, reason |-> ""]

NoWorker == [pc |-> "none", pair |-> <<FALSE, <<>>>>]

\* sd: the streamdetails ("none": no provider gave any; "unsupported": a
\* type that is no url, file, executable or aac); helper: the source helper
\* process; left, sent: bytes the helper has still to give and has given;
\* yields: the (is_last, length) pairs yielded so far.
\* resample: the rate the helper is asked to resample to (0 for None).
NoGen ==
    [pc |-> "none", item |-> 0, sd |-> "none", helper |-> "none", left |-> 0,
     sent |-> 0, yields |-> <<>>, resample |-> 0]

\* The duration a queue item has from its metadata, and a duration of
\* `bytes` bytes at `rate` bytes per second (a true division in the source).
metadata_duration == <<0, 0>>

divided(bytes, rate) == <<bytes, rate>>

\* item: the number of queue items taken so far; prev_chunk is <<>> for None;
\* max_sample_rate: the player's setting as try_parse_int gives it; duration:
\* queue_track.duration of the queue items.
NoMixer ==
    [item |-> 0, cur_chunk |-> 0, prev_chunk |-> <<>>,
     last_fadeout_data |-> <<>>, bytes_written |-> 0, max_sample_rate |-> 0,
     sample_rate |-> 0,
     duration |-> [i \in 1..MaxItems |-> metadata_duration]]

\* stdin: the bytes written to the encoder that it has not read yet; stdout:
\* the bytes it has produced that nobody has read yet.
NoProc == [state |-> "none", stdin |-> <<>>, closed |-> FALSE, stdout |-> <<>>]

NoThread == [pc |-> "none", chunk |-> <<>>]

http_init ==
    /\ cancelled = FALSE
    /\ request = NoRequest
    /\ worker = NoWorker
    /\ gen = NoGen
    /\ events = <<>>
    /\ resp = [prepared |-> FALSE, written |-> <<>>, eof |-> FALSE]
    /\ mixer = NoMixer
    /\ sox_proc = NoProc
    /\ fill_buffer_thread = NoThread
    /\ analyze_jobs = {}
    /\ analysers = <<>>
    /\ track_loudness = {}

\* No DACP request handled yet. path, value, active_remote: the request (the
\* number that ends a volume path is kept apart in value); player: the player
\* the request was matched to; task: the task the handler created; response:
\* what it wrote before the connection was closed.
NoDacp ==
    [path |-> "", value |-> 0, active_remote |-> 0, player |-> None,
     task |-> <<"none", 0>>, response |-> ""]

dacp_init ==
    /\ dacp = NoDacp
    /\ volume_level = [p \in Players |-> FALLBACK_VOLUME]
    /\ cache = [p \in Players |-> <<>>]

\* ------------------------------------------------------------------- state
NoJob ==
    [proc |-> "none", stdin |-> "open", log |-> "none", rid |-> 0, ntp |-> 0,
     recv |-> <<>>]

NoTask ==
    [pc |-> "none", player |-> None, ntp |-> 0, todo |-> {}, cur |-> None,
     stopping |-> NoStream, consumed |-> 0, subs |-> {}, why |-> "",
     prev_metadata_checksum |-> ""]

\* A queue without a current item, or whose current item has no
\* streamdetails (line 600); else the current item's stream_title ("" for
\* None) and queue_item_id.
NoItem == [stream_title |-> "", queue_item_id |-> ""]

NoCall == [player |-> None, then |-> "", pc |-> "none", stops |-> {}]

Init ==
    /\ synced_to = [p \in Players |-> None]
    /\ group_childs = [p \in Players |-> {}]
    /\ player_state = [p \in Players |-> "idle"]
    /\ active_stream = [p \in Players |-> NoStream]
    /\ jobs = [j \in JobIds |-> NoJob]
    /\ tasks = [t \in CallIds |-> NoTask]
    /\ calls = [n \in CallIds |-> NoCall]
    /\ ncalls = 0
    /\ ntp_clock = 0
    /\ current_item = [p \in Players |-> NoItem]
    /\ send_metadata = [t \in CallIds |-> <<>>]
    /\ http_init
    /\ dacp_init

\* AirplayStreamJob.running: the process was spawned and has no returncode.
running(j) == jobs[j].proc = "running"

\* AirplayProvider._get_sync_clients: the player itself and its group childs.
get_sync_clients(p) == {p} \cup group_childs[p]

\* ------------------------------------------------- AirplayStreamJob.stop
\* stop(), lines 259-261: after the wait, cancel the log reader if not done.
stop_finish(js, j) ==
    IF js[j].log = "active" THEN [js EXCEPT ![j].log = "cancelled"] ELSE js

\* send_cli_command's worker thread (send_data) has ended: the command was
\* written to /tmp/fifo-<active_remote_id>, or, when the helper is gone,
\* the open or the write may fail.  Nothing in send_cli_command or in stop()
\* catches that error.
send_data_outcomes(j) == IF running(j) THEN {"ok"} ELSE {"ok", "error"}

\* --------------------------------------------------- provider calls
\* What becomes of call n once its stop_player tasks are `stops`:
\* cmd_stop returns when none is left, and play_media / play_stream go on.
call_after(c, stops) ==
    IF stops # {} THEN [c EXCEPT !.stops = stops]
    ELSE [c EXCEPT !.stops = {},
                   !.pc = IF c.then = "raise" THEN "failed" ELSE "done"]

\* play_media line 508, play_stream line 539: the stream task is created
\* (and stored in _stream_tasks, which nothing reads: the task it replaces
\* there is not cancelled).
creates_task(c, stops) == stops = {} /\ c.then = "task"

tasks_after(n, c, stops) ==
    IF creates_task(c, stops)
    THEN [tasks EXCEPT ![n] = [NoTask EXCEPT !.pc = "start", !.player = c.player]]
    ELSE tasks

new_stops(p) == {[client |-> c, job |-> NoStream, st |-> "new"] : c \in get_sync_clients(p)}

\* A call of the provider that starts with `await self.cmd_stop(p)`; `then`
\* is what follows the cmd_stop: the stream task is created ("task"), the
\* call raises ("raise") or it returns ("return").
begin_call(p, then) ==
    /\ ncalls < MaxCalls
    /\ ncalls' = ncalls + 1
    /\ calls' = [calls EXCEPT ![ncalls + 1] =
                   [player |-> p, then |-> then, pc |-> "stopping",
                    stops |-> new_stops(p)]]

\* play_media: await cmd_stop(player_id), then create the stream task.
play_media(p) ==
    /\ UNCHANGED <<hvars, dvars, mvars, nvars>>
    /\ begin_call(p, "task")
    /\ UNCHANGED <<synced_to, group_childs, player_state, active_stream, jobs,
                   tasks, ntp_clock>>

\* play_stream: await cmd_stop(player_id), raise on an unsupported PCM
\* format (ok = FALSE), else create the stream task.
play_stream(p, ok) ==
    /\ UNCHANGED <<hvars, dvars, mvars, nvars>>
    /\ begin_call(p, IF ok THEN "task" ELSE "raise")
    /\ UNCHANGED <<synced_to, group_childs, player_state, active_stream, jobs,
                   tasks, ntp_clock>>

\* cmd_stop: one stop_player task per sync client, in a TaskGroup.
cmd_stop(p) ==
    /\ UNCHANGED <<hvars, dvars, mvars, nvars>>
    /\ begin_call(p, "return")
    /\ UNCHANGED <<synced_to, group_childs, player_state, active_stream, jobs,
                   tasks, ntp_clock>>

\* cmd_sync: no check but that the leader is not itself synced; the player
\* and the leader are two players.  (cmd_power
\* and the queue's resume are the player manager's and the queue's; the
\* play_media call a resume ends in is an input of its own.)
sync_players(p, target) ==
    /\ p # target
    /\ synced_to[target] = None
    /\ synced_to' = [synced_to EXCEPT ![p] = target]
    /\ group_childs' = [group_childs EXCEPT ![target] = @ \cup {p}]
    /\ UNCHANGED <<player_state, active_stream, jobs, tasks, calls, ntp_clock>>

cmd_sync(p, target) ==
    /\ UNCHANGED <<hvars, dvars, mvars, nvars>>
    /\ ncalls < MaxCalls
    /\ ncalls' = ncalls + 1
    /\ sync_players(p, target)

\* cmd_unsync: leave the group, then await cmd_stop(player_id).
\* (group_childs.remove raises KeyError when the player is not in the set.)
cmd_unsync(p) ==
    /\ UNCHANGED <<hvars, dvars, mvars, nvars>>
    /\ synced_to[p] # None
    /\ p \in group_childs[synced_to[p]]
    /\ ncalls < MaxCalls
    /\ group_childs' = [group_childs EXCEPT ![synced_to[p]] = @ \ {p}]
    /\ synced_to' = [synced_to EXCEPT ![p] = None]
    /\ ncalls' = ncalls + 1
    /\ calls' = [calls EXCEPT ![ncalls + 1] =
                   [player |-> p, then |-> "return", pc |-> "stopping",
                    stops |-> {[client |-> c, job |-> NoStream, st |-> "new"] :
                                c \in {p} \cup group_childs[p]}]]
    /\ UNCHANGED <<player_state, active_stream, jobs, tasks, ntp_clock>>

\* The first step of every stop_player task of call n (the TaskGroup's tasks
\* start back to back): a player with a running active stream sends
\* ACTION=STOP, any other is set idle at once.
stops_to_send == {c \in Players : active_stream[c] # NoStream /\ running(active_stream[c])}

stop_player_start(n) ==
    /\ UNCHANGED <<hvars, dvars, mvars, nvars>>
    /\ calls[n].pc = "stopping"
    /\ \E s \in calls[n].stops : s.st = "new"
    /\ LET started == {s \in calls[n].stops : s.st = "new"}
           sending == {[client |-> s.client, job |-> active_stream[s.client], st |-> "cmd"] :
                        s \in {x \in started : x.client \in stops_to_send}}
           idle == {s.client : s \in {x \in started : x.client \notin stops_to_send}}
           left == (calls[n].stops \ started) \cup sending
       IN /\ player_state' = [p \in Players |-> IF p \in idle THEN "idle" ELSE player_state[p]]
          /\ calls' = [calls EXCEPT ![n] = call_after(@, left)]
          /\ tasks' = tasks_after(n, calls[n], left)
    /\ UNCHANGED <<synced_to, group_childs, active_stream, jobs, ncalls, ntp_clock>>

\* stop_player after stop() returned: the player is set idle.
stop_player_done(n, s, js) ==
    LET left == calls[n].stops \ {s} IN
    /\ jobs' = stop_finish(js, s.job)
    /\ player_state' = [player_state EXCEPT ![s.client] = "idle"]
    /\ calls' = [calls EXCEPT ![n] = call_after(@, left)]
    /\ tasks' = tasks_after(n, calls[n], left)

\* The ACTION=STOP of a stop_player task was sent (or failed): stop() goes on
\* to wait for the process.
stop_player_sent(n) ==
    /\ UNCHANGED <<hvars, dvars, mvars, nvars>>
    /\ calls[n].pc = "stopping"
    /\ \E s \in calls[n].stops :
        /\ s.st = "cmd"
        /\ \E out \in send_data_outcomes(s.job) :
            IF out = "error"
            THEN /\ calls' = [calls EXCEPT ![n].pc = "failed", ![n].stops = {}]
                 /\ UNCHANGED <<jobs, player_state, tasks>>
            ELSE IF jobs[s.job].proc = "exited"
                 THEN stop_player_done(n, s, jobs)
                 ELSE /\ jobs' = jobs
                      /\ calls' = [calls EXCEPT ![n].stops =
                                     (@ \ {s}) \cup {[s EXCEPT !.st = "wait"]}]
                      /\ UNCHANGED <<player_state, tasks>>
    /\ UNCHANGED <<synced_to, group_childs, active_stream, ncalls, ntp_clock>>

\* The process a stop_player task waits for has exited.
stop_player_waited(n) ==
    /\ UNCHANGED <<hvars, dvars, mvars, nvars>>
    /\ calls[n].pc = "stopping"
    /\ \E s \in calls[n].stops :
        /\ s.st = "wait"
        /\ jobs[s.job].proc = "exited"
        /\ stop_player_done(n, s, jobs)
    /\ UNCHANGED <<synced_to, group_childs, active_stream, ncalls, ntp_clock>>

\* ------------------------------------------------------- _stream_audio
\* The task has returned or raised: its locals are gone.
end_task(tk, pc, why) ==
    [NoTask EXCEPT !.pc = pc, !.why = why, !.player = tk.player, !.ntp = tk.ntp,
                   !.consumed = tk.consumed]

\* Line 571-572: a new AirplayStreamJob becomes the player's active_stream
\* and init_cliraop sets its start_ntp and awaits the spawn.
new_job(tk, rid) ==
    [NoJob EXCEPT !.proc = "spawning", !.rid = rid, !.ntp = tk.ntp]

create_job(t, c, tk, js) ==
    \E rid \in RemoteIds :
        /\ active_stream' = [active_stream EXCEPT ![c] = <<t, c>>]
        /\ jobs' = [js EXCEPT ![<<t, c>>] = new_job(tk, rid)]
        /\ tasks' = [tasks EXCEPT ![t] = [tk EXCEPT !.pc = "spawn", !.cur = c,
                                                     !.stopping = NoStream]]

\* Lines 567-572, from the top of the loop over the sync clients (a list
\* made once from a set: any order) to the next await.
setup_next(t, tk, js) ==
    IF tk.todo = {}
    THEN /\ tasks' = [tasks EXCEPT ![t] = [tk EXCEPT !.pc = "iter", !.cur = None]]
         /\ jobs' = js
         /\ UNCHANGED active_stream
    ELSE \E c \in tk.todo :
            LET a == active_stream[c]
                tk2 == [tk EXCEPT !.todo = @ \ {c}]
            IN  IF a # NoStream /\ js[a].proc = "running"
                THEN /\ tasks' = [tasks EXCEPT ![t] =
                            [tk2 EXCEPT !.pc = "stop_cmd", !.cur = c, !.stopping = a]]
                     /\ jobs' = js
                     /\ UNCHANGED active_stream
                ELSE create_job(t, c, tk2, js)

\* Lines 551-554: the task's first step.
stream_audio_start(t) ==
    /\ UNCHANGED <<hvars, dvars, mvars, nvars>>
    /\ tasks[t].pc = "start"
    /\ tasks' = [tasks EXCEPT ![t] =
          IF synced_to[tasks[t].player] # None
          THEN end_task(@, "failed", "synced")
          ELSE [@ EXCEPT !.pc = "ntp"]]
    /\ UNCHANGED <<synced_to, group_childs, player_state, active_stream, jobs,
                   calls, ncalls, ntp_clock>>

\* Lines 563-567: `cliraop -ntp` answered; its clock never repeats a value.
stream_audio_ntp(t) ==
    /\ UNCHANGED <<hvars, dvars, mvars, nvars>>
    /\ tasks[t].pc = "ntp"
    /\ ntp_clock' = ntp_clock + 1
    /\ setup_next(t, [tasks[t] EXCEPT !.ntp = ntp_clock + 1,
                                      !.todo = get_sync_clients(tasks[t].player)],
                  jobs)
    /\ UNCHANGED <<synced_to, group_childs, player_state, calls, ncalls>>

\* Line 570: the ACTION=STOP to the player's previous stream was sent.
stream_audio_stop_sent(t) ==
    /\ UNCHANGED <<hvars, dvars, mvars, nvars>>
    /\ tasks[t].pc = "stop_cmd"
    /\ LET j == tasks[t].stopping IN
       \E out \in send_data_outcomes(j) :
         IF out = "error"
         THEN /\ tasks' = [tasks EXCEPT ![t] = end_task(@, "failed", "stop")]
              /\ UNCHANGED <<jobs, active_stream>>
         ELSE IF jobs[j].proc = "exited"
              THEN create_job(t, tasks[t].cur, tasks[t], stop_finish(jobs, j))
              ELSE /\ jobs' = jobs
                   /\ tasks' = [tasks EXCEPT ![t].pc = "stop_wait"]
                   /\ UNCHANGED active_stream
    /\ UNCHANGED <<synced_to, group_childs, player_state, calls, ncalls, ntp_clock>>

\* Line 570: the previous stream's process has exited, stop() returns.
stream_audio_stop_waited(t) ==
    /\ UNCHANGED <<hvars, dvars, mvars, nvars>>
    /\ tasks[t].pc = "stop_wait"
    /\ jobs[tasks[t].stopping].proc = "exited"
    /\ create_job(t, tasks[t].cur, tasks[t], stop_finish(jobs, tasks[t].stopping))
    /\ UNCHANGED <<synced_to, group_childs, player_state, calls, ncalls, ntp_clock>>

\* init_cliraop lines 243-249: the helper is spawned and its log watcher
\* task created; _stream_audio goes on with the next sync client.
init_cliraop_done(t) ==
    /\ UNCHANGED <<hvars, dvars, mvars, nvars>>
    /\ tasks[t].pc = "spawn"
    /\ LET j == <<t, tasks[t].cur>> IN
       setup_next(t, tasks[t], [jobs EXCEPT ![j].proc = "running", ![j].log = "active"])
    /\ UNCHANGED <<synced_to, group_childs, player_state, calls, ncalls, ntp_clock>>

\* The guard of lines 579-583 without its start_ntp comparison.
is_active_client_any_stamp(c, ntp) ==
    /\ active_stream[c] # NoStream
    /\ running(active_stream[c])

\* Lines 579-583 and 611-615: the player's stream is this session's.
is_active_client(c, ntp) ==
    /\ active_stream[c] # NoStream
    /\ running(active_stream[c])
    /\ jobs[active_stream[c]].ntp = ntp

available_clients(tk) ==
    {c \in get_sync_clients(tk.player) : is_active_client(c, tk.ntp)}

\* Lines 587-593: a write_chunk task and a PROGRESS task per client.
fan_out(cl) ==
    {[kind |-> k, job |-> active_stream[c], st |-> "new"] :
        k \in {"chunk", "progress"}, c \in cl}

\* Lines 576-596 with `continue` in the place of the `return` of line 596.
send_chunk_continue(tk, cl) ==
    IF cl = {}
    THEN tk
    ELSE [tk EXCEPT !.pc = "fan", !.subs = fan_out(cl)]

\* Lines 576-596, for the clients cl the chunk goes to: the TaskGroup is
\* entered, or the task returns when there is none.
send_chunk(tk, cl) ==
    IF cl = {}
    THEN end_task(tk, "done", "no_clients")
    ELSE [tk EXCEPT !.pc = "fan", !.subs = fan_out(cl)]

\* Lines 574-596: the iterator yields a chunk; the chunk is fanned out, or
\* the task returns when no client is left.
stream_audio_chunk(t) ==
    /\ UNCHANGED <<hvars, dvars, mvars, nvars>>
    /\ tasks[t].pc = "iter"
    /\ tasks[t].consumed < MaxChunks
    /\ tasks' = [tasks EXCEPT ![t] =
          send_chunk([@ EXCEPT !.consumed = @ + 1], available_clients(@))]
    /\ UNCHANGED <<synced_to, group_childs, player_state, active_stream, jobs,
                   calls, ncalls, ntp_clock>>

\* Lines 609-618: the iterator is exhausted.  write_eof is declared
\* write_eof(self, data) and called without an argument: the call raises
\* TypeError before the method's body runs, and the task ends with it.
stream_audio_eof(t) ==
    /\ UNCHANGED <<hvars, dvars, mvars, nvars>>
    /\ tasks[t].pc = "iter"
    /\ LET cl == available_clients(tasks[t]) IN
       tasks' = [tasks EXCEPT ![t] =
          IF cl = {}
          THEN end_task(@, "done", "eof")
          ELSE end_task(@, "failed", "TypeError")]
    /\ UNCHANGED <<synced_to, group_childs, player_state, active_stream, jobs,
                   calls, ncalls, ntp_clock>>

\* ------------------------------------------- AirplayStreamJob.write_chunk
\* Line 318 and 321: `not self.running or not stdin.can_write_eof()`;
\* can_write_eof() of a pipe transport is the constant True.
write_chunk_guard(j) == running(j)

\* Line 324: drain() of a stream whose connection is lost raises
\* ConnectionResetError, which suppress(BrokenPipeError) lets through.
drain_raises(j) == jobs[j].stdin # "open"

\* Line 320: the bytes reach the helper's stdin unless the pipe is gone.
write_chunk_data(js, j, t) ==
    IF js[j].stdin = "open"
    THEN [js EXCEPT ![j].recv = Append(@, <<t, tasks[t].consumed>>)]
    ELSE js

\* The first step of every task of the TaskGroup (they start back to back):
\* Lines 601-604: stream_title, or queue_item_id when there is no title.
metadata_checksum(item) ==
    IF item.stream_title # "" THEN item.stream_title ELSE item.queue_item_id

\* Lines 600-605: the tests that let a metadata push through.
metadata_changed(prev_metadata_checksum, item) ==
    /\ item # NoItem
    /\ prev_metadata_checksum # metadata_checksum(item)

\* Lines 598-607 without the assignment of line 606.
next_chunk_keeps_checksum(tk, item) == [tk EXCEPT !.pc = "iter", !.subs = {}]

\* Lines 598-607: the TaskGroup is left without an error; the checksum of a
\* push is kept, and the loop goes on with the next chunk.
next_chunk(tk, item) ==
    [tk EXCEPT !.pc = "iter", !.subs = {},
               !.prev_metadata_checksum =
                   IF metadata_changed(@, item) THEN metadata_checksum(item) ELSE @]

\* Line 607: the _send_metadata task created when task t, now tk, has left
\* the TaskGroup without an error.
create_send_metadata(t, tk) ==
    IF /\ tk.pc = "iter"
       /\ metadata_changed(tasks[t].prev_metadata_checksum, current_item[tk.player])
    THEN [send_metadata EXCEPT ![t] =
             Append(@, metadata_checksum(current_item[tk.player]))]
    ELSE send_metadata

\* write_chunk writes and drains; send_cli_command hands PROGRESS to a
\* worker thread.  (A drain that waits for a full pipe ends no later than
\* the TaskGroup, which waits for the PROGRESS task of the same client: the
\* wait is that task's.)
stream_audio_fan_start(t) ==
    /\ UNCHANGED <<hvars, dvars, nvars, current_item>>
    /\ tasks[t].pc = "fan"
    /\ \E s \in tasks[t].subs : s.st = "new"
    /\ LET writes == {s.job : s \in {x \in tasks[t].subs :
                        x.kind = "chunk" /\ write_chunk_guard(x.job)}}
           raised == {j \in writes : drain_raises(j)}
           sends == {s \in tasks[t].subs : s.kind = "progress" /\ running(s.job)}
       IN /\ jobs' = [j \in JobIds |->
                        IF j \in writes THEN write_chunk_data(jobs, j, t)[j] ELSE jobs[j]]
          /\ LET busy == {[s EXCEPT !.st = "busy"] : s \in sends}
             IN tasks' = [tasks EXCEPT ![t] =
                    IF raised # {}
                    THEN end_task(@, "failed", "ConnectionResetError")
                    ELSE IF busy = {} THEN next_chunk(@, current_item[@.player])
                    ELSE [@ EXCEPT !.subs = busy]]
    /\ send_metadata' = create_send_metadata(t, tasks'[t])
    /\ UNCHANGED <<synced_to, group_childs, player_state, active_stream, calls,
                   ncalls, ntp_clock>>

\* A PROGRESS task of the TaskGroup ends: its thread is done or failed.
\* An error ends the TaskGroup, and with it the stream task.
stream_audio_fan_done(t) ==
    /\ UNCHANGED <<hvars, dvars, nvars, current_item>>
    /\ tasks[t].pc = "fan"
    /\ \E s \in tasks[t].subs :
        /\ s.st = "busy"
        /\ \E out \in send_data_outcomes(s.job) :
            LET left == tasks[t].subs \ {s} IN
            tasks' = [tasks EXCEPT ![t] =
                IF out = "error"
                THEN end_task(@, "failed", "progress")
                ELSE IF left = {} THEN next_chunk(@, current_item[@.player])
                ELSE [@ EXCEPT !.subs = left]]
    /\ send_metadata' = create_send_metadata(t, tasks'[t])
    /\ UNCHANGED <<synced_to, group_childs, player_state, active_stream, jobs,
                   calls, ncalls, ntp_clock>>

\* The current items tried: none, two items without a stream title, and a
\* radio item whose stream title is "title".
queue_items ==
    {NoItem,
     [stream_title |-> "", queue_item_id |-> "q1"],
     [stream_title |-> "", queue_item_id |-> "q2"],
     [stream_title |-> "title", queue_item_id |-> "q1"],
     [stream_title |-> "title", queue_item_id |-> "q2"]}

\* The queue controller moves the active queue of player p to another
\* current item (or to none); _stream_audio reads it at lines 600-604.
queue_update(p, item) ==
    /\ item # current_item[p]
    /\ current_item' = [current_item EXCEPT ![p] = item]
    /\ UNCHANGED <<avars, hvars, dvars, nvars, send_metadata>>

\* ------------------------------------------------ the cliraop helper
\* The helper process exits (ACTION=STOP, a crash, the endpoint lost):
\* the returncode is set and asyncio closes the pipes.
proc_exited(j) ==
    /\ UNCHANGED <<hvars, dvars, mvars, nvars>>
    /\ jobs[j].proc = "running"
    /\ jobs' = [jobs EXCEPT ![j].proc = "exited", ![j].stdin = "lost"]
    /\ UNCHANGED <<synced_to, group_childs, player_state, active_stream, tasks,
                   calls, ncalls, ntp_clock>>

\* The helper's end of stdin is closed before the returncode is known.
stdin_lost(j) ==
    /\ UNCHANGED <<hvars, dvars, mvars, nvars>>
    /\ jobs[j].proc = "running"
    /\ jobs[j].stdin = "open"
    /\ jobs' = [jobs EXCEPT ![j].stdin = "lost"]
    /\ UNCHANGED <<synced_to, group_childs, player_state, active_stream, tasks,
                   calls, ncalls, ntp_clock>>

\* _log_watcher lines 285-305: a line of the helper's stderr that changes
\* the player's state ("set pause"; "Restarted at", "restarting w/o pause").
log_watcher_line(j, st) ==
    /\ UNCHANGED <<hvars, dvars, mvars, nvars>>
    /\ jobs[j].log = "active"
    /\ jobs[j].proc = "running"
    /\ player_state[j[2]] # st
    /\ player_state' = [player_state EXCEPT ![j[2]] = st]
    /\ UNCHANGED <<synced_to, group_childs, active_stream, jobs, tasks, calls,
                   ncalls, ntp_clock>>

\* _log_watcher at the end of stderr without lines 309-310.
log_watcher_eof_keeps_state(j) ==
    /\ UNCHANGED <<hvars, dvars, mvars, nvars>>
    /\ jobs[j].log = "active"
    /\ jobs[j].proc = "exited"
    /\ jobs' = [jobs EXCEPT ![j].log = "done"]
    /\ UNCHANGED <<synced_to, group_childs, player_state, active_stream, tasks,
                   calls, ncalls, ntp_clock>>

\* _log_watcher lines 307-310: stderr is at its end, the player is set idle.
log_watcher_eof(j) ==
    /\ UNCHANGED <<hvars, dvars, mvars, nvars>>
    /\ jobs[j].log = "active"
    /\ jobs[j].proc = "exited"
    /\ jobs' = [jobs EXCEPT ![j].log = "done"]
    /\ player_state' = [player_state EXCEPT ![j[2]] = "idle"]
    /\ UNCHANGED <<synced_to, group_childs, active_stream, tasks, calls, ncalls,
                   ntp_clock>>

\* ------------------------------------------- HTTPStreamer: source pipeline
\* Byte k of the audio of item i.
Byte(i, k) == 10 * i + k

Min(a, b) == IF a < b THEN a ELSE b

\* The generator object made by a call of __get_audio_stream for item i.
new_gen(i) == [NoGen EXCEPT !.pc = "start", !.item = i]

\* next() on a suspended generator: where it goes on from its yield.
resume_gen(g) ==
    [g EXCEPT !.pc = CASE g.pc = "yielded" -> "loop"
                       [] g.pc = "yielded_last" -> "ending"
                       [] g.pc = "yielded_end" -> "stopped"
                       [] OTHER -> g.pc]

\* Whether that next() raises StopIteration at once (the `return` after the
\* yield of lines 289 and 314).
stops_at_once(g) == g.pc = "yielded_end"

\* Lines 269-318: provider selection; without stream details, or with a type
\* that cannot be streamed, the only pair is (True, b''); else the helper is
\* spawned and STREAM_STARTED signalled.
get_audio_stream_select ==
    /\ worker.pc = "next"
    /\ gen.pc = "start"
    /\ \E sd \in {"none", "unsupported", "ok"}, len \in 0..MaxItemBytes :
        IF sd = "ok"
        THEN /\ gen' = [gen EXCEPT !.pc = "loop", !.sd = sd, !.helper = "running",
                                   !.left = len]
             /\ events' = Append(events, <<"STREAM_STARTED", gen.item>>)
             /\ UNCHANGED worker
        ELSE /\ gen' = [gen EXCEPT !.pc = "yielded_end", !.sd = sd,
                                   !.yields = <<<<TRUE, 0>>>>]
             /\ worker' = [worker EXCEPT !.pc = "got", !.pair = <<TRUE, <<>>>>]
             /\ UNCHANGED events
    /\ UNCHANGED <<cancelled, request, resp>>
    /\ UNCHANGED qvars
    /\ UNCHANGED <<avars, dvars, mvars, nvars>>

\* Lines 323-326: the top of the read loop; a set cancel flag terminates the
\* helper.
get_audio_stream_check ==
    /\ worker.pc = "next"
    /\ gen.pc = "loop"
    /\ gen' = [gen EXCEPT !.pc = "read",
                          !.helper = IF cancelled THEN "terminated" ELSE @]
    /\ UNCHANGED <<cancelled, request, worker, events, resp>>
    /\ UNCHANGED qvars
    /\ UNCHANGED <<avars, dvars, mvars, nvars>>

\* Lines 329-336 without the `break` of line 333.
after_read_no_break(last) == "yielded"

\* Lines 329-336: where the generator is suspended after a read; the pair of
\* a short read is the last one.
after_read(last) == IF last THEN "yielded_last" ELSE "yielded"

\* Lines 328-336: read(chunksize) returns chunksize bytes, or fewer at the end
\* of the helper's output; a terminated helper's output may end at once or go
\* on (a shell pipeline outlives the terminated shell).
get_audio_stream_read ==
    /\ worker.pc = "next"
    /\ gen.pc = "read"
    /\ \E cut \in (IF gen.helper = "terminated" THEN BOOLEAN ELSE {FALSE}) :
        LET n == IF cut THEN 0 ELSE Min(ChunkSize, gen.left)
            chunk == [k \in 1..n |-> Byte(gen.item, gen.sent + k)]
            last == n < ChunkSize
        IN /\ gen' = [gen EXCEPT !.pc = after_read(last),
                                 !.left = IF cut THEN 0 ELSE @ - n,
                                 !.sent = @ + n,
                                 !.helper = IF last /\ @ = "running" THEN "exited" ELSE @,
                                 !.yields = Append(@, <<last, n>>)]
           /\ worker' = [worker EXCEPT !.pc = "got", !.pair = <<last, chunk>>]
    /\ UNCHANGED <<cancelled, request, events, resp>>
    /\ UNCHANGED qvars
    /\ UNCHANGED <<avars, dvars, mvars, nvars>>

\* Line 341: run_in_executor(None, self.__analyze_audio, streamdetails);
\* key is the item_id and provider of the streamdetails.
run_in_executor(key) == Append(analysers, [key |-> key, pc |-> "start"])

\* Lines 337-341: after the loop, STREAM_ENDED is signalled, the analysis of
\* the item is handed to the executor (the queue items are tracks) and the
\* generator is exhausted.
get_audio_stream_end ==
    /\ worker.pc = "next"
    /\ gen.pc = "ending"
    /\ events' = Append(events, <<"STREAM_ENDED", gen.item>>)
    /\ analysers' = run_in_executor(gen.item)
    /\ gen' = [gen EXCEPT !.pc = "stopped"]
    /\ worker' = [worker EXCEPT !.pc = "exhausted"]
    /\ UNCHANGED <<cancelled, request, resp>>
    /\ UNCHANGED qvars
    /\ UNCHANGED <<avars, dvars, mvars, analyze_jobs, track_loudness>>

\* ------------------------------------------ HTTPStreamer: audio analyser
\* Lines 340-341 reached by a request for the track `key`: the streamer
\* serves any number of requests, each in its own executor thread.
stream_ended(key) ==
    /\ Len(analysers) < MaxAnalyze
    /\ analysers' = run_in_executor(key)
    /\ UNCHANGED <<analyze_jobs, track_loudness>>
    /\ UNCHANGED <<avars, hvars, dvars, mvars>>

\* __analyze_audio line 371, in the executor thread of job i: the job
\* returns when the key is in analyze_jobs.
analyze_audio_check(i) ==
    /\ i \in DOMAIN analysers
    /\ analysers[i].pc = "start"
    /\ analysers' = [analysers EXCEPT ![i].pc =
          IF analysers[i].key \in analyze_jobs THEN "returned" ELSE "checked"]
    /\ UNCHANGED <<analyze_jobs, track_loudness>>
    /\ UNCHANGED <<avars, hvars, dvars, mvars>>

\* Line 373: analyze_jobs[item_key] = True.
analyze_audio_mark(i) ==
    /\ i \in DOMAIN analysers
    /\ analysers[i].pc = "checked"
    /\ analyze_jobs' = analyze_jobs \cup {analysers[i].key}
    /\ analysers' = [analysers EXCEPT ![i].pc = "marked"]
    /\ UNCHANGED track_loudness
    /\ UNCHANGED <<avars, hvars, dvars, mvars>>

\* Lines 374-376: the loudness the database has for the track, if any.
analyze_audio_lookup(i) ==
    /\ i \in DOMAIN analysers
    /\ analysers[i].pc = "marked"
    /\ analysers' = [analysers EXCEPT ![i].pc =
          IF analysers[i].key \in track_loudness THEN "pop" ELSE "analyzing"]
    /\ UNCHANGED <<analyze_jobs, track_loudness>>
    /\ UNCHANGED <<avars, hvars, dvars, mvars>>

\* Lines 379-383: only the types url and executable bind audio_data.
binds_audio_data(type) == type \in {"url", "executable"}

\* Lines 377-393: the audio is fetched, measured and the loudness stored.
\* With another type than url or executable audio_data is unbound at line
\* 385 (UnboundLocalError); ok tells whether the download and the decoding
\* succeed.  Nothing catches an exception: the job ends with it.
analyze_audio_measure(i) ==
    /\ i \in DOMAIN analysers
    /\ analysers[i].pc = "analyzing"
    /\ \E type \in {"url", "executable", "file"}, ok \in BOOLEAN :
        IF binds_audio_data(type) /\ ok
        THEN /\ track_loudness' = track_loudness \cup {analysers[i].key}
             /\ analysers' = [analysers EXCEPT ![i].pc = "pop"]
        ELSE /\ analysers' = [analysers EXCEPT ![i].pc = "raised"]
             /\ UNCHANGED track_loudness
    /\ UNCHANGED analyze_jobs
    /\ UNCHANGED <<avars, hvars, dvars, mvars>>

\* Line 394: analyze_jobs.pop(item_key, None).
analyze_audio_pop(i) ==
    /\ i \in DOMAIN analysers
    /\ analysers[i].pc = "pop"
    /\ analyze_jobs' = analyze_jobs \ {analysers[i].key}
    /\ analysers' = [analysers EXCEPT ![i].pc = "done"]
    /\ UNCHANGED track_loudness
    /\ UNCHANGED <<avars, hvars, dvars, mvars>>

\* ------------------------------------- HTTPStreamer: single item streaming
\* The worker asks the generator for the next pair.
next_pair(w, g) ==
    [w EXCEPT !.pc = IF stops_at_once(g) THEN "exhausted" ELSE "next"]

\* Lines 42-50 without the lookup of the queue item.
not_found_player_only(mode, player, queue_item) == ~player

\* Lines 42-50: the request names no player, or in single item mode no queue
\* item.
not_found(mode, player, queue_item) == ~player \/ (mode = "item" /\ ~queue_item)

\* stream(), lines 42-62: player and queue_item tell whether the lookups
\* find one; without them the handler returns a 404 response, else the
\* response is prepared and the worker started.
stream(mode, player, queue_item) ==
    /\ request.pc = "none"
    /\ mode = "queue" => ~queue_item
    /\ IF not_found(mode, player, queue_item)
       THEN /\ request' = IF ~player
                           THEN [NoRequest EXCEPT !.pc = "done", !.status = 404,
                                                  !.reason = "Player not found"]
                           ELSE [NoRequest EXCEPT !.pc = "done", !.mode = mode,
                                                  !.player = TRUE, !.status = 404,
                                                  !.reason = "Invalid Queue item Id"]
            /\ UNCHANGED <<worker, gen, resp>>
       ELSE /\ \E cf \in (IF mode = "queue" THEN BOOLEAN ELSE {FALSE}) :
                request' = [NoRequest EXCEPT !.pc = "streaming", !.mode = mode,
                                            !.player = player,
                                            !.queue_item = queue_item,
                                            !.crossfade_enabled = cf]
            /\ resp' = [resp EXCEPT !.prepared = TRUE]
            /\ worker' = [NoWorker EXCEPT !.pc = IF mode = "queue" THEN "q_start" ELSE "next"]
            /\ gen' = IF mode = "queue" THEN NoGen ELSE new_gen(1)
    /\ UNCHANGED <<cancelled, events>>
    /\ UNCHANGED qvars
    /\ UNCHANGED <<avars, dvars, mvars, nvars>>

\* stream(), lines 64-68: the handler is cancelled (the client is gone) while
\* it awaits the worker, and sets the cancel flag.
stream_cancelled ==
    /\ request.pc = "streaming"
    /\ cancelled' = TRUE
    /\ request' = [request EXCEPT !.pc = "cancelled"]
    /\ UNCHANGED <<worker, gen, events, resp>>
    /\ UNCHANGED qvars
    /\ UNCHANGED <<avars, dvars, mvars, nvars>>

\* stream(), lines 65 and 69: the worker has ended, the response is returned.
stream_return ==
    /\ request.pc = "streaming"
    /\ worker.pc = "done"
    /\ request' = [request EXCEPT !.pc = "done", !.status = 200, !.reason = "OK"]
    /\ UNCHANGED <<cancelled, worker, gen, events, resp>>
    /\ UNCHANGED qvars
    /\ UNCHANGED <<avars, dvars, mvars, nvars>>

\* __get_queue_item_stream lines 74-82: a pair has arrived; with the cancel
\* flag set it is dropped, else buffer.write is handed to the event loop.
get_queue_item_stream_chunk ==
    /\ request.mode = "item"
    /\ worker.pc = "got"
    /\ IF cancelled
       THEN /\ worker' = next_pair(worker, gen)
            /\ gen' = resume_gen(gen)
       ELSE /\ worker' = [worker EXCEPT !.pc = "write"]
            /\ UNCHANGED gen
    /\ UNCHANGED <<cancelled, request, events, resp>>
    /\ UNCHANGED qvars
    /\ UNCHANGED <<avars, dvars, mvars, nvars>>

\* Lines 80-82: the event loop has run buffer.write(audio_chunk).
get_queue_item_stream_written ==
    /\ request.mode = "item"
    /\ worker.pc = "write"
    /\ resp' = [resp EXCEPT !.written = @ \o worker.pair[2]]
    /\ worker' = next_pair(worker, gen)
    /\ gen' = resume_gen(gen)
    /\ UNCHANGED <<cancelled, request, events>>
    /\ UNCHANGED qvars
    /\ UNCHANGED <<avars, dvars, mvars, nvars>>

\* Lines 83-91: all pairs received; write_eof is handed to the event loop
\* unless the cancel flag is set.
get_queue_item_stream_end ==
    /\ request.mode = "item"
    /\ worker.pc = "exhausted"
    /\ worker' = [worker EXCEPT !.pc = IF cancelled THEN "done" ELSE "write_eof"]
    /\ UNCHANGED <<cancelled, request, gen, events, resp>>
    /\ UNCHANGED qvars
    /\ UNCHANGED <<avars, dvars, mvars, nvars>>

\* Lines 88-90: the event loop has run buffer.write_eof().
get_queue_item_stream_eof ==
    /\ request.mode = "item"
    /\ worker.pc = "write_eof"
    /\ resp' = [resp EXCEPT !.eof = TRUE]
    /\ worker' = [worker EXCEPT !.pc = "done"]
    /\ UNCHANGED <<cancelled, request, gen, events>>
    /\ UNCHANGED qvars
    /\ UNCHANGED <<avars, dvars, mvars, nvars>>

\* ------------------------------------------ HTTPStreamer: queue streaming
\* Line 152: the source pipeline is read in chunks of fade_bytes.
fade_bytes == ChunkSize

\* Python's s[:n], s[n:], s[-n:] and s[:-n] for n > 0.
slice_to(s, n) == SubSeq(s, 1, Min(n, Len(s)))

slice_from(s, n) == SubSeq(s, Min(n, Len(s)) + 1, Len(s))

slice_last(s, n) == SubSeq(s, Len(s) - Min(n, Len(s)) + 1, Len(s))

slice_but_last(s, n) == SubSeq(s, 1, Len(s) - Min(n, Len(s)))

\* What the encoder makes of a byte of PCM audio.
flac(s) == [k \in 1..Len(s) |-> 1000 + s[k]]

\* The mix of a byte of the fade-in with a byte of the fade-out.
mix_byte(a, b) == 100 * a + b

\* __crossfade_pcm_parts: `sox -m` mixes the faded parts sample by sample and
\* its output is as long as the longer of them.
crossfade_pcm_parts(fade_in_part, fade_out_part) ==
    LET n == IF Len(fade_in_part) < Len(fade_out_part)
             THEN Len(fade_out_part) ELSE Len(fade_in_part)
        at(s, k) == IF k <= Len(s) THEN s[k] ELSE 0
    IN [k \in 1..n |-> mix_byte(at(fade_in_part, k), at(fade_out_part, k))]

\* Lines 168-177: the first two chunks of an item with their leading silence
\* stripped (the helper removes k bytes); a result shorter than fade_bytes is
\* replaced by the raw chunks cut off at the fade position.
first_part(both, k) ==
    LET stripped == SubSeq(both, k + 1, Len(both))
    IN IF Len(stripped) < fade_bytes
       THEN IF Len(both) >= fade_bytes THEN slice_from(both, fade_bytes) ELSE both
       ELSE stripped

\* Lines 199-208: the last two chunks of an item with their trailing silence
\* stripped (the helper removes k bytes), with the same fallback.
last_part(both, k) ==
    LET stripped == SubSeq(both, 1, Len(both) - k)
    IN IF Len(stripped) < fade_bytes
       THEN IF Len(both) >= fade_bytes THEN slice_to(both, fade_bytes) ELSE both
       ELSE stripped

\* The mixer's locals after a step that writes data to the encoder.
mixed(locals, data) ==
    [mixer |-> [locals EXCEPT !.bytes_written = @ + Len(data)], written |-> data]

\* Lines 209-225 with the test of line 209 left out.
handle_last_part_always_fade(m, part, crossfade_enabled) ==
    mixed([m EXCEPT !.last_fadeout_data = slice_last(part, fade_bytes)],
          slice_but_last(part, fade_bytes))

\* Lines 209-225: without crossfade the last part is written whole, with
\* crossfade its last fade_bytes are kept as the pending tail.
handle_last_part(m, part, crossfade_enabled) ==
    IF crossfade_enabled
    THEN mixed([m EXCEPT !.last_fadeout_data = slice_last(part, fade_bytes)],
               slice_but_last(part, fade_bytes))
    ELSE mixed(m, part)

\* Lines 154-236: what the mixer does with one pair: the new locals and the
\* bytes it writes to the encoder; k is the number of bytes the silence-strip
\* helper removes.
handle_chunk(m, is_last_chunk, chunk, crossfade_enabled, k) ==
    LET cur_chunk == m.cur_chunk + 1
        both == m.prev_chunk \o chunk
        n == [m EXCEPT !.cur_chunk = cur_chunk]
    \* the first three arms cover every pair with cur_chunk <= 2
    IN CASE cur_chunk <= 2 /\ m.last_fadeout_data = <<>> ->
                mixed(n, chunk)
         [] cur_chunk = 1 /\ m.last_fadeout_data # <<>> ->
                mixed([n EXCEPT !.prev_chunk = chunk], <<>>)
         [] cur_chunk = 2 /\ m.last_fadeout_data # <<>> ->
                mixed([n EXCEPT !.last_fadeout_data = <<>>, !.prev_chunk = <<>>],
                      crossfade_pcm_parts(slice_to(first_part(both, k), fade_bytes),
                                          m.last_fadeout_data)
                          \o slice_from(first_part(both, k), fade_bytes))
         [] cur_chunk > 2 /\ m.prev_chunk # <<>> /\ is_last_chunk ->
                handle_last_part(n, last_part(both, k), crossfade_enabled)
         [] OTHER ->
                mixed([n EXCEPT !.prev_chunk = chunk], m.prev_chunk)

\* sox_proc.stdin.write(data): the bytes go into the encoder's stdin pipe;
\* with the encoder gone the write raises BrokenPipeError.
stdin_write_raises(data) == sox_proc.state = "died" /\ data # <<>>

stdin_write(data) == [sox_proc EXCEPT !.stdin = @ \o data]

\* Lines 95-98 with the upper limit left out.
select_sample_rate_no_max(max_sample_rate) ==
    IF max_sample_rate = 0 \/ max_sample_rate < 44100
    THEN 96000 ELSE max_sample_rate

\* Lines 95-98: the player's max_sample_rate as try_parse_int gives it (0
\* when the setting is absent or no number) unless it is out of range.
select_sample_rate(max_sample_rate) ==
    IF max_sample_rate = 0 \/ max_sample_rate < 44100 \/ max_sample_rate > 384000
    THEN 96000 ELSE max_sample_rate

\* The max_sample_rate settings tried.
SampleRates == {0, 44099, 44100, 384000, 384001}

\* Lines 95-129: the sample rate is chosen, the encoder is spawned and the
\* fill_buffer thread started.
get_queue_stream_start ==
    /\ request.mode = "queue"
    /\ worker.pc = "q_start"
    /\ sox_proc' = [NoProc EXCEPT !.state = "running"]
    /\ fill_buffer_thread' = [NoThread EXCEPT !.pc = "read"]
    /\ \E max_sample_rate \in SampleRates :
          mixer' = [NoMixer EXCEPT !.max_sample_rate = max_sample_rate,
                                   !.sample_rate = select_sample_rate(max_sample_rate)]
    /\ worker' = [worker EXCEPT !.pc = "q_loop"]
    /\ UNCHANGED <<cancelled, request, gen, events, resp>>
    /\ UNCHANGED <<avars, dvars, mvars, nvars>>

\* Lines 130-132: the top of the item loop.
get_queue_stream_check ==
    /\ request.mode = "queue"
    /\ worker.pc = "q_loop"
    /\ worker' = [worker EXCEPT !.pc = IF cancelled THEN "q_flush" ELSE "q_item"]
    /\ UNCHANGED <<cancelled, request, gen, events, resp>>
    /\ UNCHANGED qvars
    /\ UNCHANGED <<avars, dvars, mvars, nvars>>

\* Lines 133-153: the next queue item is requested; without one the loop is
\* left, else the item's source pipeline is made.
get_queue_stream_next_item ==
    /\ request.mode = "queue"
    /\ worker.pc = "q_item"
    /\ \E queue_track \in (IF mixer.item < MaxItems THEN BOOLEAN ELSE {FALSE}) :
        IF queue_track
        THEN /\ mixer' = [mixer EXCEPT !.item = @ + 1, !.cur_chunk = 0,
                                       !.prev_chunk = <<>>, !.bytes_written = 0]
             /\ gen' = [new_gen(mixer.item + 1) EXCEPT !.resample = mixer.sample_rate]
             /\ worker' = [worker EXCEPT !.pc = "next"]
        ELSE /\ worker' = [worker EXCEPT !.pc = "q_flush"]
             /\ UNCHANGED <<mixer, gen>>
    /\ UNCHANGED <<cancelled, request, events, resp, sox_proc, fill_buffer_thread>>
    /\ UNCHANGED <<avars, dvars, mvars, nvars>>

\* Lines 154-236: a pair has arrived and is mixed; an exception of a write to
\* the encoder ends the worker where it is.
get_queue_stream_chunk ==
    /\ request.mode = "queue"
    /\ worker.pc = "got"
    /\ \E k \in 0..Len(mixer.prev_chunk \o worker.pair[2]) :
        LET h == handle_chunk(mixer, worker.pair[1], worker.pair[2],
                              request.crossfade_enabled, k)
        IN IF stdin_write_raises(h.written)
           THEN /\ worker' = [worker EXCEPT !.pc = "raised"]
                /\ UNCHANGED <<mixer, sox_proc, gen>>
           ELSE /\ mixer' = h.mixer
                /\ sox_proc' = stdin_write(h.written)
                /\ worker' = next_pair(worker, gen)
                /\ gen' = resume_gen(gen)
    /\ UNCHANGED <<cancelled, request, events, resp, fill_buffer_thread>>
    /\ UNCHANGED <<avars, dvars, mvars, nvars>>

\* Lines 238-244 with the test of the cancel flag left out.
track_duration_always(m, is_cancelled) ==
    [m.duration EXCEPT ![m.item] = divided(m.bytes_written, m.sample_rate * 4 * 2)]

\* Lines 238-244: unless the cancel flag is set, the duration of the item is
\* set to the bytes written for it divided by the bytes of a second.
track_duration(m, is_cancelled) ==
    IF is_cancelled THEN m.duration
    ELSE [m.duration EXCEPT ![m.item] = divided(m.bytes_written, m.sample_rate * 4 * 2)]

\* Lines 237-247: the item's pairs are all received.
get_queue_stream_track_end ==
    /\ request.mode = "queue"
    /\ worker.pc = "exhausted"
    /\ worker' = [worker EXCEPT !.pc = IF cancelled THEN "q_flush" ELSE "q_loop"]
    /\ mixer' = [mixer EXCEPT !.duration = track_duration(mixer, cancelled)]
    /\ UNCHANGED <<cancelled, request, gen, events, resp, sox_proc, fill_buffer_thread>>
    /\ UNCHANGED <<avars, dvars, mvars, nvars>>

\* Lines 248-251: after the loop a pending tail is written to the encoder
\* unless the cancel flag is set.
get_queue_stream_flush ==
    /\ request.mode = "queue"
    /\ worker.pc = "q_flush"
    /\ IF mixer.last_fadeout_data # <<>> /\ ~cancelled
       THEN IF stdin_write_raises(mixer.last_fadeout_data)
            THEN /\ worker' = [worker EXCEPT !.pc = "raised"]
                 /\ UNCHANGED sox_proc
            ELSE /\ worker' = [worker EXCEPT !.pc = "q_flushed"]
                 /\ sox_proc' = stdin_write(mixer.last_fadeout_data)
       ELSE /\ worker' = [worker EXCEPT !.pc = "q_close"]
            /\ UNCHANGED sox_proc
    /\ UNCHANGED <<cancelled, request, gen, events, resp, mixer, fill_buffer_thread>>
    /\ UNCHANGED <<avars, dvars, mvars, nvars>>

\* Lines 253-254: stdin.close() and terminate(); what the encoder had not yet
\* read of its stdin is lost.
get_queue_stream_close ==
    /\ request.mode = "queue"
    /\ worker.pc \in {"q_flushed", "q_close"}
    /\ sox_proc' = [sox_proc EXCEPT !.stdin = <<>>, !.closed = TRUE,
                        !.state = IF @ = "running" THEN "terminated" ELSE @]
    /\ worker' = [worker EXCEPT !.pc = "q_join"]
    /\ UNCHANGED <<cancelled, request, gen, events, resp, mixer, fill_buffer_thread>>
    /\ UNCHANGED <<avars, dvars, mvars, nvars>>

\* Line 255: fill_buffer_thread.join() returns when the thread has ended.
get_queue_stream_join ==
    /\ request.mode = "queue"
    /\ worker.pc = "q_join"
    /\ fill_buffer_thread.pc = "done"
    /\ worker' = [worker EXCEPT !.pc = "done"]
    /\ UNCHANGED <<cancelled, request, gen, events, resp>>
    /\ UNCHANGED qvars
    /\ UNCHANGED <<avars, dvars, mvars, nvars>>

\* The encoder reads what is in its stdin pipe and writes the encoded audio
\* to its stdout.
sox_encode ==
    /\ sox_proc.state = "running"
    /\ sox_proc.stdin # <<>>
    /\ sox_proc' = [sox_proc EXCEPT !.stdin = <<>>, !.stdout = @ \o flac(sox_proc.stdin)]
    /\ UNCHANGED <<cancelled, request, worker, gen, events, resp, mixer,
                   fill_buffer_thread>>
    /\ UNCHANGED <<avars, dvars, mvars, nvars>>

\* The encoder ends on its own account (it fails or is killed).
sox_died ==
    /\ sox_proc.state = "running"
    /\ sox_proc' = [sox_proc EXCEPT !.state = "died", !.stdin = <<>>]
    /\ UNCHANGED <<cancelled, request, worker, gen, events, resp, mixer,
                   fill_buffer_thread>>
    /\ UNCHANGED <<avars, dvars, mvars, nvars>>

\* fill_buffer line 112: read() returns what the encoder has produced, or
\* nothing once the encoder has ended and its output is read.
fill_buffer_read ==
    /\ fill_buffer_thread.pc = "read"
    /\ IF sox_proc.stdout # <<>>
       THEN /\ fill_buffer_thread' = [pc |-> "got", chunk |-> sox_proc.stdout]
            /\ sox_proc' = [sox_proc EXCEPT !.stdout = <<>>]
       ELSE /\ sox_proc.state \in {"terminated", "died"}
            /\ fill_buffer_thread' = [pc |-> "end", chunk |-> <<>>]
            /\ UNCHANGED sox_proc
    /\ UNCHANGED <<cancelled, request, worker, gen, events, resp, mixer>>
    /\ UNCHANGED <<avars, dvars, mvars, nvars>>

\* fill_buffer lines 115-118: the chunk is handed to the event loop for
\* buffer.write unless the cancel flag is set.
fill_buffer_chunk ==
    /\ fill_buffer_thread.pc = "got"
    /\ fill_buffer_thread' =
           IF cancelled THEN [pc |-> "read", chunk |-> <<>>]
           ELSE [fill_buffer_thread EXCEPT !.pc = "write"]
    /\ UNCHANGED <<cancelled, request, worker, gen, events, resp, mixer, sox_proc>>
    /\ UNCHANGED <<avars, dvars, mvars, nvars>>

\* fill_buffer lines 116-117: the event loop has run buffer.write(chunk).
fill_buffer_written ==
    /\ fill_buffer_thread.pc = "write"
    /\ resp' = [resp EXCEPT !.written = @ \o fill_buffer_thread.chunk]
    /\ fill_buffer_thread' = [pc |-> "read", chunk |-> <<>>]
    /\ UNCHANGED <<cancelled, request, worker, gen, events, mixer, sox_proc>>
    /\ UNCHANGED <<avars, dvars, mvars, nvars>>

\* fill_buffer lines 119-122: after the loop write_eof is handed to the event
\* loop unless the cancel flag is set.
fill_buffer_end ==
    /\ fill_buffer_thread.pc = "end"
    /\ fill_buffer_thread' =
           [fill_buffer_thread EXCEPT !.pc = IF cancelled THEN "done" ELSE "write_eof"]
    /\ UNCHANGED <<cancelled, request, worker, gen, events, resp, mixer, sox_proc>>
    /\ UNCHANGED <<avars, dvars, mvars, nvars>>

\* fill_buffer lines 121-122: the event loop has run buffer.write_eof().
fill_buffer_eof ==
    /\ fill_buffer_thread.pc = "write_eof"
    /\ resp' = [resp EXCEPT !.eof = TRUE]
    /\ fill_buffer_thread' = [fill_buffer_thread EXCEPT !.pc = "done"]
    /\ UNCHANGED <<cancelled, request, worker, gen, events, mixer, sox_proc>>
    /\ UNCHANGED <<avars, dvars, mvars, nvars>>

\* --------------------------------------------------- DACP control server
\* The order of the players in AirplayProvider._players (a dict).
player_rank == [p \in Players |-> CASE p = "p1" -> 1 [] p = "p2" -> 2 [] OTHER -> 3]

\* Lines 797-804: the first player whose active_stream has the request's
\* Active-Remote as its active_remote_id, or None.
airplay_player(active_remote) ==
    LET found == {p \in Players : /\ active_stream[p] # NoStream
                                  /\ jobs[active_stream[p]].rid = active_remote}
    IN IF found = {} THEN None
       ELSE CHOOSE p \in found : \A q \in found : player_rank[p] <= player_rank[q]

\* Python's int() of the quotient a / b: the fraction is cut off towards 0.
int_div(a, b) == IF a >= 0 THEN a \div b ELSE -((-a) \div b)

\* convert_airplay_volume, lines 146-153.
convert_airplay_volume(value) == int_div((value - (-30)) * (100 - 0), 0 - (-30)) + 0

abs(n) == IF n < 0 THEN -n ELSE n

\* Lines 841 and 845 with `>= 2` in the place of `> 2`.
volume_changed_from_2(volume, level) == abs(volume - level) >= 2

\* Lines 841 and 845: the test that lets a volume through.
volume_changed(volume, level) == abs(volume - level) > 2

\* The paths of the requests tried; the last one is no DACP command.
device_volume_path == "/ctrl-int/1/setproperty?dmcp.device-volume="

volume_path == "/ctrl-int/1/setproperty?dmcp.volume="

command_paths ==
    {"/ctrl-int/1/nextitem", "/ctrl-int/1/previtem", "/ctrl-int/1/play",
     "/ctrl-int/1/playpause", "/ctrl-int/1/stop", "/ctrl-int/1/volumeup",
     "/ctrl-int/1/volumedown", "/ctrl-int/1/shuffle_songs", "/ctrl-int/1/pause",
     "/ctrl-int/1/discrete-pause", "/ctrl-int/1/getproperty"}

\* The numbers tried after dmcp.device-volume= and after dmcp.volume=.
device_volumes == {-24, -15}

volumes == {18, 23}

dacp_requests ==
    {<<path, 0>> : path \in command_paths}
        \cup {<<device_volume_path, v>> : v \in device_volumes}
        \cup {<<volume_path, v>> : v \in volumes}

\* Lines 814-853: the task the handler creates for a path; shuffle_enabled is
\* what the queue of the player gives.
dacp_task(path, value, level, shuffle_enabled) ==
    CASE path = "/ctrl-int/1/nextitem" -> <<"player_queues.next", 0>>
      [] path = "/ctrl-int/1/previtem" -> <<"player_queues.previous", 0>>
      [] path = "/ctrl-int/1/play" -> <<"player_queues.play", 0>>
      [] path = "/ctrl-int/1/playpause" -> <<"player_queues.play_pause", 0>>
      [] path = "/ctrl-int/1/stop" -> <<"cmd_stop", 0>>
      [] path = "/ctrl-int/1/volumeup" -> <<"players.cmd_volume_up", 0>>
      [] path = "/ctrl-int/1/volumedown" -> <<"players.cmd_volume_down", 0>>
      [] path = "/ctrl-int/1/shuffle_songs" ->
            <<"player_queues.set_shuffle", IF shuffle_enabled THEN 0 ELSE 1>>
      [] path \in {"/ctrl-int/1/pause", "/ctrl-int/1/discrete-pause"} ->
            <<"player_queues.pause", 0>>
      [] path = device_volume_path ->
            IF volume_changed(convert_airplay_volume(value), level)
            THEN <<"cmd_volume_set", convert_airplay_volume(value)>>
            ELSE <<"none", 0>>
      [] path = volume_path ->
            IF volume_changed(value, level)
            THEN <<"cmd_volume_set", value>>
            ELSE <<"none", 0>>
      [] OTHER -> <<"none", 0>>

\* _handle_dacp_request, lines 777-865: a request that matches no player is
\* dropped with no response; else the task of its path is created and the
\* 204 response written; the connection is closed in both cases.
handle_dacp_request(path, value, active_remote) ==
    /\ LET player == airplay_player(active_remote) IN
       IF player = None
       THEN dacp' = [NoDacp EXCEPT !.path = path, !.value = value,
                                   !.active_remote = active_remote]
       ELSE \E shuffle_enabled \in (IF path = "/ctrl-int/1/shuffle_songs"
                                    THEN BOOLEAN ELSE {FALSE}) :
              dacp' = [path |-> path, value |-> value,
                       active_remote |-> active_remote, player |-> player,
                       task |-> dacp_task(path, value, volume_level[player],
                                          shuffle_enabled),
                       response |-> "HTTP/1.0 204 No Content, Content-Length: 0"]
    /\ UNCHANGED <<volume_level, cache>>
    /\ UNCHANGED <<avars, hvars, mvars, nvars>>

\* cmd_volume_set, lines 629-633: the player's volume_level is set and the
\* value stored in the cache under airplay_prev_volume.<player_id>.  (The
\* VOLUME command of line 628 goes to the helper's fifo.)
set_volume(p, volume) ==
    /\ volume_level' = [volume_level EXCEPT ![p] = volume]
    /\ cache' = [cache EXCEPT ![p] = <<volume>>]

\* cmd_volume_set, lines 620-633, run by the task the handler created.
cmd_volume_set ==
    /\ dacp.task[1] = "cmd_volume_set"
    /\ set_volume(dacp.player, dacp.task[2])
    /\ dacp' = [dacp EXCEPT !.task = <<"done", 0>>]
    /\ UNCHANGED <<avars, hvars, mvars, nvars>>

\* cmd_volume_set, lines 620-633, called by the player manager.
cmd_volume_set_direct(p, volume) ==
    /\ set_volume(p, volume)
    /\ UNCHANGED dacp
    /\ UNCHANGED <<avars, hvars, mvars, nvars>>

\* Lines 745-746: the volume of a player that is set up: what the cache has
\* for it (<<>>: cache.get gives None), or FALLBACK_VOLUME when that is falsy.
initial_volume(stored) ==
    IF stored = <<>> \/ stored[1] = 0 THEN FALLBACK_VOLUME ELSE stored[1]

\* _setup_player, lines 717-768: after a restart of the provider the player
\* is discovered again and registered anew (idle, in no group, no stream).
setup_player(p) ==
    /\ player_state[p] = "idle"
    /\ active_stream[p] = NoStream
    /\ synced_to[p] = None
    /\ group_childs[p] = {}
    /\ \A q \in Players : synced_to[q] # p
    /\ volume_level' = [volume_level EXCEPT ![p] = initial_volume(cache[p])]
    /\ UNCHANGED <<dacp, cache>>
    /\ UNCHANGED <<avars, hvars, mvars, nvars>>

\* The volumes the player manager sets.
set_volumes == {0, 1, 100}

\* The numbers tried after dmcp.device-volume= (mute is -144 dB) and after
\* dmcp.volume= when the range of the volume is looked at.
wide_device_volumes == {-144, -30, -24, 0}

wide_volumes == {0, 100, 150}

wide_dacp_requests ==
    {<<device_volume_path, v>> : v \in wide_device_volumes}
        \cup {<<volume_path, v>> : v \in wide_volumes}

\* ------------------------------------------------------ specification
Next ==
    \/ \E p \in Players : play_media(p)
    \/ \E p \in Players, ok \in BOOLEAN : play_stream(p, ok)
    \/ \E p \in Players : cmd_stop(p)
    \/ \E p, q \in Players : cmd_sync(p, q)
    \/ \E p \in Players : cmd_unsync(p)
    \/ \E n \in CallIds : stop_player_start(n)
    \/ \E n \in CallIds : stop_player_sent(n)
    \/ \E n \in CallIds : stop_player_waited(n)
    \/ \E t \in CallIds : stream_audio_start(t)
    \/ \E t \in CallIds : stream_audio_ntp(t)
    \/ \E t \in CallIds : stream_audio_stop_sent(t)
    \/ \E t \in CallIds : stream_audio_stop_waited(t)
    \/ \E t \in CallIds : init_cliraop_done(t)
    \/ \E t \in CallIds : stream_audio_chunk(t)
    \/ \E t \in CallIds : stream_audio_eof(t)
    \/ \E t \in CallIds : stream_audio_fan_start(t)
    \/ \E t \in CallIds : stream_audio_fan_done(t)
    \/ \E j \in JobIds : proc_exited(j)
    \/ \E j \in JobIds : stdin_lost(j)
    \/ \E j \in JobIds : log_watcher_eof(j)

Spec == Init /\ [][Next]_vars

\* A session of a group that is stopped: cmd_sync(p2, p1) before anything
\* else, then play_media(p1), then cmd_stop(p1).
no_group == \A p \in Players : synced_to[p] = None /\ group_childs[p] = {}

group_formed ==
    /\ ncalls = 0
    /\ no_group
    /\ sync_players("p2", "p1")
    /\ UNCHANGED ncalls
    /\ UNCHANGED <<hvars, dvars, mvars, nvars>>

group_play ==
    /\ ncalls = 0
    /\ ~no_group
    /\ play_media("p1")

group_stop ==
    /\ ncalls = 1
    /\ cmd_stop("p1")

NextGroup ==
    \/ group_formed
    \/ group_play
    \/ group_stop
    \/ \E n \in CallIds : stop_player_start(n)
    \/ \E n \in CallIds : stop_player_sent(n)
    \/ \E n \in CallIds : stop_player_waited(n)
    \/ \E t \in CallIds : stream_audio_start(t)
    \/ \E t \in CallIds : stream_audio_ntp(t)
    \/ \E t \in CallIds : init_cliraop_done(t)
    \/ \E t \in CallIds : stream_audio_chunk(t)
    \/ \E t \in CallIds : stream_audio_eof(t)
    \/ \E t \in CallIds : stream_audio_fan_start(t)
    \/ \E t \in CallIds : stream_audio_fan_done(t)
    \/ \E j \in JobIds : proc_exited(j)
    \/ \E j \in JobIds : log_watcher_eof(j)

SpecGroup == Init /\ [][NextGroup]_vars

\* The sessions of one player with the stderr lines of the helpers:
\* play_media(p1) and cmd_stop(p1).  The loop delivers the end of a helper's
\* stderr once the helper has exited (weak fairness of log_watcher_eof).
exit_play == play_media("p1")

exit_stop == cmd_stop("p1")

NextExit ==
    \/ exit_play
    \/ exit_stop
    \/ \E n \in CallIds : stop_player_start(n)
    \/ \E n \in CallIds : stop_player_sent(n)
    \/ \E n \in CallIds : stop_player_waited(n)
    \/ \E t \in CallIds : stream_audio_start(t)
    \/ \E t \in CallIds : stream_audio_ntp(t)
    \/ \E t \in CallIds : stream_audio_stop_sent(t)
    \/ \E t \in CallIds : stream_audio_stop_waited(t)
    \/ \E t \in CallIds : init_cliraop_done(t)
    \/ \E t \in CallIds : stream_audio_chunk(t)
    \/ \E t \in CallIds : stream_audio_eof(t)
    \/ \E t \in CallIds : stream_audio_fan_start(t)
    \/ \E t \in CallIds : stream_audio_fan_done(t)
    \/ \E j \in JobIds : proc_exited(j)
    \/ \E j \in JobIds : stdin_lost(j)
    \/ \E j \in JobIds, st \in {"playing", "paused"} : log_watcher_line(j, st)
    \/ \E j \in JobIds : log_watcher_eof(j)

SpecExit ==
    /\ Init
    /\ [][NextExit]_vars
    /\ \A j \in JobIds : WF_vars(log_watcher_eof(j))

\* The HTTP streamer serving one request for a single queue item.
NextItem ==
    \/ \E player, queue_item \in BOOLEAN : stream("item", player, queue_item)
    \/ stream_cancelled
    \/ stream_return
    \/ get_audio_stream_select
    \/ get_audio_stream_check
    \/ get_audio_stream_read
    \/ get_audio_stream_end
    \/ get_queue_item_stream_chunk
    \/ get_queue_item_stream_written
    \/ get_queue_item_stream_end
    \/ get_queue_item_stream_eof

SpecItem == Init /\ [][NextItem]_vars

\* The HTTP streamer serving one stream request.
NextHttp ==
    \/ \E mode \in {"item", "queue"}, player, queue_item \in BOOLEAN :
          stream(mode, player, queue_item)
    \/ stream_cancelled
    \/ stream_return
    \/ get_audio_stream_select
    \/ get_audio_stream_check
    \/ get_audio_stream_read
    \/ get_audio_stream_end
    \/ get_queue_item_stream_chunk
    \/ get_queue_item_stream_written
    \/ get_queue_item_stream_end
    \/ get_queue_item_stream_eof
    \/ get_queue_stream_start
    \/ get_queue_stream_check
    \/ get_queue_stream_next_item
    \/ get_queue_stream_chunk
    \/ get_queue_stream_track_end
    \/ get_queue_stream_flush
    \/ get_queue_stream_close
    \/ get_queue_stream_join
    \/ sox_encode
    \/ sox_died
    \/ fill_buffer_read
    \/ fill_buffer_chunk
    \/ fill_buffer_written
    \/ fill_buffer_end
    \/ fill_buffer_eof

SpecHttp == Init /\ [][NextHttp]_vars

\* The DACP control server while players are started: play_media calls that
\* stop nothing, the stream tasks up to the spawn of their helpers, and DACP
\* requests with the Active-Remote of a session or with another one.
NextDacp ==
    \/ \E p \in Players : play_media(p)
    \/ \E n \in CallIds : stop_player_start(n)
    \/ \E t \in CallIds : stream_audio_start(t)
    \/ \E t \in CallIds : stream_audio_ntp(t)
    \/ \E t \in CallIds : init_cliraop_done(t)
    \/ \E r \in dacp_requests, active_remote \in RemoteIds \cup {0} :
          handle_dacp_request(r[1], r[2], active_remote)
    \/ cmd_volume_set

SpecDacp == Init /\ [][NextDacp]_vars

\* A session of player p1 whose queue moves on while the chunks are sent.
NextMeta ==
    \/ play_media("p1")
    \/ \E n \in CallIds : stop_player_start(n)
    \/ \E t \in CallIds : stream_audio_start(t)
    \/ \E t \in CallIds : stream_audio_ntp(t)
    \/ \E t \in CallIds : init_cliraop_done(t)
    \/ \E t \in CallIds : stream_audio_chunk(t)
    \/ \E t \in CallIds : stream_audio_fan_start(t)
    \/ \E t \in CallIds : stream_audio_fan_done(t)
    \/ \E item \in queue_items : queue_update("p1", item)

SpecMeta == Init /\ [][NextMeta]_vars

\* The volume of the players over restarts of the provider.
NextVolume ==
    \/ \E p \in Players, volume \in set_volumes : cmd_volume_set_direct(p, volume)
    \/ \E p \in Players : setup_player(p)

SpecVolume == Init /\ [][NextVolume]_vars

\* A session of player p1 whose endpoint sends volume requests.
NextRange ==
    \/ play_media("p1")
    \/ \E n \in CallIds : stop_player_start(n)
    \/ \E t \in CallIds : stream_audio_start(t)
    \/ \E t \in CallIds : stream_audio_ntp(t)
    \/ \E t \in CallIds : init_cliraop_done(t)
    \/ \E r \in wide_dacp_requests, active_remote \in RemoteIds :
          handle_dacp_request(r[1], r[2], active_remote)
    \/ cmd_volume_set

SpecRange == Init /\ [][NextRange]_vars

\* The audio analyser with the jobs of several requests.
NextAnalyze ==
    \/ \E key \in 1..MaxItems : stream_ended(key)
    \/ \E i \in 1..MaxAnalyze : analyze_audio_check(i)
    \/ \E i \in 1..MaxAnalyze : analyze_audio_mark(i)
    \/ \E i \in 1..MaxAnalyze : analyze_audio_lookup(i)
    \/ \E i \in 1..MaxAnalyze : analyze_audio_measure(i)
    \/ \E i \in 1..MaxAnalyze : analyze_audio_pop(i)

SpecAnalyze == Init /\ [][NextAnalyze]_vars

\* The same program with the helper's stderr lines that set the player state.
NextLog ==
    \/ Next
    \/ \E j \in JobIds, st \in {"playing", "paused"} : log_watcher_line(j, st)

SpecLog == Init /\ [][NextLog]_vars

\* --------------------------------------------------------- properties
created(j) == jobs[j].proc # "none"

\* C1: no RAOP helper leaks: every helper process that was spawned and has
\* not exited is the active_stream of its player (so a later stop reaches it).
C1_NoHelperLeak ==
    \A j \in JobIds : running(j) => active_stream[j[2]] = j

\* C2: on one player the helper of a new session is spawned only after the
\* helper of the previous session has exited: no two helpers of one player
\* run at the same time.
C2_SpawnAfterExit ==
    \A j, k \in JobIds :
        (j # k /\ j[2] = k[2]) => ~(running(j) /\ running(k))

\* C3: no two drivers whose helper is running have the same active_remote_id.
C3_UniqueActiveRemoteId ==
    \A j, k \in JobIds :
        (j # k /\ running(j) /\ running(k)) => jobs[j].rid # jobs[k].rid

\* C4: an endpoint drop does not fail the session: a stream task is never
\* ended by a failed chunk write or a failed PROGRESS command while another
\* client still has a running driver of the session with its stdin open.
healthy_clients(tk) ==
    {c \in available_clients(tk) : jobs[active_stream[c]].stdin = "open"}

C4_EndpointDropKeepsSession ==
    \A t \in CallIds :
        tasks[t].why \in {"progress", "ConnectionResetError"}
            => healthy_clients(tasks[t]) = {}

\* C5: every driver of a session that stays running (and whose stdin is
\* open) has received the chunks the session's iterator produced so far, in
\* iterator order, without gap or duplicate; only the chunk being fanned out
\* may still be missing.
chunk_in_flight(j) ==
    /\ tasks[j[1]].pc = "fan"
    /\ [kind |-> "chunk", job |-> j, st |-> "new"] \in tasks[j[1]].subs

in_order(j) == \A i \in 1..Len(jobs[j].recv) : jobs[j].recv[i] = <<j[1], i>>

C5_ChunkSequence ==
    \A j \in JobIds :
        (running(j) /\ jobs[j].stdin = "open") =>
            /\ in_order(j)
            /\ Len(jobs[j].recv) >=
                  tasks[j[1]].consumed - (IF chunk_in_flight(j) THEN 1 ELSE 0)

\* C6: every driver carries the start_ntp of the session (stream task) that
\* created it; a stream task fans a chunk out only to drivers that are, at
\* the fan-out, the active_stream of a sync client of its player, running,
\* and stamped with the task's start_ntp; a chunk is written only to a running
\* driver by a task with the driver's stamp, so a driver with a different
\* stamp never receives a chunk from that task.
stamped(j) == created(j) => jobs[j].ntp = tasks[j[1]].ntp

same_stamp(j) ==
    \A i \in 1..Len(jobs[j].recv) : tasks[jobs[j].recv[i][1]].ntp = jobs[j].ntp

fan_out_guarded(t) ==
    (tasks[t].pc = "iter" /\ tasks'[t].pc = "fan") =>
        \A s \in tasks'[t].subs :
            /\ s.job[2] \in get_sync_clients(tasks[t].player)
            /\ active_stream[s.job[2]] = s.job
            /\ running(s.job)
            /\ jobs[s.job].ntp = tasks[t].ntp

write_guarded(j) ==
    jobs'[j].recv # jobs[j].recv =>
        /\ running(j)
        /\ Len(jobs'[j].recv) = Len(jobs[j].recv) + 1
        /\ LET t == jobs'[j].recv[Len(jobs'[j].recv)][1]
           IN /\ tasks[t].ntp = jobs[j].ntp
              /\ [kind |-> "chunk", job |-> j, st |-> "new"] \in tasks[t].subs

C6_StampGuardsFanOut ==
    /\ [](\A j \in JobIds : stamped(j) /\ same_stamp(j))
    /\ [][(\A t \in CallIds : fan_out_guarded(t))
            /\ (\A j \in JobIds : write_guarded(j))]_vars

\* A stream task met, at a chunk, a running driver of another session on its
\* own player, which has received chunks of that other session only.
C6_Witness ==
    \E t \in CallIds : \E j \in JobIds :
        /\ tasks[t].why = "no_clients"
        /\ j[2] = tasks[t].player
        /\ active_stream[j[2]] = j
        /\ running(j)
        /\ jobs[j].ntp # tasks[t].ntp
        /\ jobs[j].recv # <<>>

\* C7: when, for a chunk, no sync client has a running active driver with the
\* session's start_ntp, the stream task ends at that chunk: it enters no
\* fan-out and writes nothing, and from then on it consumes no chunk and no
\* driver receives anything from it.
no_clients_at(t) ==
    /\ tasks[t].pc = "iter"
    /\ tasks'[t].consumed = tasks[t].consumed + 1
    /\ available_clients(tasks[t]) = {}

chunks_from(js, t) ==
    [j \in JobIds |-> SelectSeq(js[j].recv, LAMBDA e : e[1] = t)]

C7_NoClientsEndsTask ==
    [][\A t \in CallIds :
        /\ no_clients_at(t) =>
              /\ tasks'[t].pc = "done"
              /\ tasks'[t].subs = {}
              /\ jobs' = jobs
        /\ tasks[t].pc = "done" =>
              /\ tasks'[t] = tasks[t]
              /\ chunks_from(jobs', t) = chunks_from(jobs, t)]_vars

\* A stream task has ended for want of clients before its iterator was
\* exhausted.
C7_Witness ==
    \E t \in CallIds :
        /\ tasks[t].pc = "done"
        /\ tasks[t].why = "no_clients"
        /\ tasks[t].consumed < MaxChunks

\* C8: when the iterator of a session is exhausted, the stdin of every
\* driver that is still running with the session's start_ntp is closed.
C8_EofClosesStdin ==
    \A t \in CallIds :
        tasks[t].why \in {"eof", "TypeError"} => healthy_clients(tasks[t]) = {}

\* C9: write_chunk does not write when the helper's stdin is closed and
\* never raises on a broken pipe.
C9_WriteChunkNeverRaises ==
    \A t \in CallIds : tasks[t].why # "ConnectionResetError"

\* C10: whenever stop() returns for a driver, also when the driver was not
\* running, the driver's stderr log reader task is cancelled or finished.
stop_returns_at_once(j) ==
    /\ ~running(j)
    /\ \/ \E n \in CallIds : \E s \in calls[n].stops :
            /\ s.st = "new"
            /\ active_stream[s.client] = j
            /\ calls'[n] # calls[n]
       \/ \E t \in CallIds :
            /\ tasks[t].pc \in {"ntp", "spawn"}
            /\ tasks'[t].pc = "spawn"
            /\ tasks'[t] # tasks[t]
            /\ active_stream[tasks'[t].cur] = j

stop_returns_after_wait(j) ==
    \/ \E n \in CallIds : \E s \in calls[n].stops :
            /\ s.st \in {"cmd", "wait"}
            /\ s.job = j
            /\ calls'[n].pc # "failed"
            /\ \A x \in calls'[n].stops : x.client # s.client
    \/ \E t \in CallIds :
            /\ tasks[t].pc \in {"stop_cmd", "stop_wait"}
            /\ tasks[t].stopping = j
            /\ tasks'[t].pc = "spawn"

C10_StopEndsLogReader ==
    [][\A j \in JobIds :
        (stop_returns_at_once(j) \/ stop_returns_after_wait(j))
            => jobs'[j].log # "active"]_vars

\* C11: when cmd_stop(L) returns, no helper of L or of a member of L's group
\* is running, and L and the members are idle.
cmd_stop_returns(n) ==
    /\ calls[n].then = "return"
    /\ calls[n].pc = "stopping"
    /\ calls'[n].pc = "done"

C11_StopStopsGroup ==
    [][\A n \in CallIds : cmd_stop_returns(n) =>
          \A c \in {calls[n].player} \cup group_childs'[calls[n].player] :
              /\ \A j \in JobIds : j[2] = c => jobs'[j].proc # "running"
              /\ player_state'[c] = "idle"]_vars

\* C12: whenever the helper of a driver exits (its log watcher has not yet
\* seen the end of stderr), its player becomes idle afterwards, unless a newer
\* driver has taken the driver's place as active_stream.
C12_ExitLeadsToIdle ==
    \A j \in JobIds :
        (jobs[j].proc = "exited" /\ jobs[j].log = "active")
            ~> (player_state[j[2]] = "idle" \/ active_stream[j[2]] # j)

\* The helper of a player's current driver has exited while the player is
\* playing.
C12_Witness ==
    \E j \in JobIds :
        /\ jobs[j].proc = "exited"
        /\ active_stream[j[2]] = j
        /\ player_state[j[2]] = "playing"

\* C13: the leader of a synced player is not itself synced, and is not the
\* player.
C13_NoSyncChains ==
    \A p \in Players :
        synced_to[p] # None =>
            synced_to[synced_to[p]] = None /\ synced_to[p] # p

\* C14: in every run of the source pipeline the pair with is_last = true is
\* the last pair yielded, it is the one pair shorter than the chunk size, and
\* a run that has ended has yielded it.
run_ended == gen.pc \in {"yielded_last", "yielded_end", "ending", "stopped"}

C14_OneLastPair ==
    /\ \A i \in 1..Len(gen.yields) :
          /\ gen.yields[i][1] <=> (i = Len(gen.yields) /\ run_ended)
          /\ gen.yields[i][1] <=> (gen.yields[i][2] < ChunkSize)
    /\ run_ended => Len(gen.yields) >= 1

\* A run that was cancelled after its first pair has ended.
C14_Witness ==
    /\ gen.pc = "stopped"
    /\ gen.helper = "terminated"
    /\ Len(gen.yields) >= 2

\* C15: in a run of the source pipeline in which a provider gave stream
\* details, STREAM_STARTED is signalled once before the first pair is yielded
\* and STREAM_ENDED once when the run has ended, and never before
\* STREAM_STARTED.
signalled(e) == Cardinality({i \in 1..Len(events) : events[i] = <<e, gen.item>>})

C15_StartedAndEnded ==
    /\ (gen.sd # "none" /\ Len(gen.yields) >= 1)
          => signalled("STREAM_STARTED") = 1
    /\ (gen.sd # "none" /\ gen.pc = "stopped")
          => signalled("STREAM_ENDED") = 1
    /\ signalled("STREAM_ENDED") <= signalled("STREAM_STARTED")

\* C16: once the cancel flag is set, nothing is written to the HTTP response:
\* no audio bytes and no EOF.
C16_NoWriteAfterCancel ==
    [][cancelled => resp' = resp]_vars

\* C17: once the cancel flag is set, the mixer requests no further queue
\* item: it leaves the item loop.
requests_queue_item == worker.pc = "q_item" /\ worker'.pc # "q_item"

C17_NoItemAfterCancel == [][cancelled => ~requests_queue_item]_vars

\* C18: whenever a queue-stream invocation has ended, by its return or by an
\* exception, the encoder's stdin is closed, the encoder and the source
\* helper are not running any more and the fill_buffer thread has ended.
queue_stream_ended == request.mode = "queue" /\ worker.pc \in {"done", "raised"}

C18_TeardownOnEveryExit ==
    queue_stream_ended =>
        /\ sox_proc.closed
        /\ sox_proc.state # "running"
        /\ gen.helper # "running"
        /\ fill_buffer_thread.pc = "done"

\* C19: when the queue is exhausted without cancellation and a pending tail
\* was flushed to an encoder that did not fail, then once EOF is written to
\* the response the encoded tail is the end of what the response received.
is_suffix(t, s) == Len(t) <= Len(s) /\ SubSeq(s, Len(s) - Len(t) + 1, Len(s)) = t

tail_flushed ==
    /\ request.mode = "queue"
    /\ worker.pc \in {"q_join", "done"}
    /\ mixer.last_fadeout_data # <<>>
    /\ ~cancelled
    /\ sox_proc.state = "terminated"

C19_TailReachesSink ==
    (tail_flushed /\ resp.eof) => is_suffix(flac(mixer.last_fadeout_data), resp.written)

\* C20: with crossfade enabled, the step that mixes the terminal pair of an
\* item of at least two full chunks stores exactly fade_bytes bytes as the
\* pending tail, and what it forwards followed by what it stores is the
\* buffered audio with its trailing silence removed.
terminal_pair_mixed ==
    /\ request.mode = "queue"
    /\ request.crossfade_enabled
    /\ worker.pc = "got"
    /\ worker.pair[1]
    /\ gen.sent >= 2 * fade_bytes
    /\ worker'.pc \notin {"got", "raised"}

forwarded == SubSeq(sox_proc'.stdin, Len(sox_proc.stdin) + 1, Len(sox_proc'.stdin))

C20_TailStored ==
    [][terminal_pair_mixed =>
          /\ Len(mixer'.last_fadeout_data) = fade_bytes
          /\ \E n \in 0..Len(mixer.prev_chunk \o worker.pair[2]) :
                forwarded \o mixer'.last_fadeout_data
                    = SubSeq(mixer.prev_chunk \o worker.pair[2], 1, n)]_vars

\* A step of the mixer that has mixed a pair without an exception.
pair_mixed ==
    /\ request.mode = "queue"
    /\ worker.pc = "got"
    /\ worker'.pc \notin {"got", "raised"}

\* C21: with crossfade disabled the pending tail is empty in every state.
C21_NoTailWithoutCrossfade ==
    ~request.crossfade_enabled => mixer.last_fadeout_data = <<>>

C21_Witness ==
    /\ request.mode = "queue"
    /\ ~request.crossfade_enabled
    /\ worker.pc = "exhausted"
    /\ mixer.cur_chunk >= 4
    /\ mixer.item = 2

\* C22: while a pending tail exists, the first chunk of an item is held back
\* and, at its second chunk or at its end, the mixer delivers the crossfade
\* of the tail with the head of the item followed by the leftover head, and
\* empties the pending tail.
is_head(head, both) ==
    \E k \in 0..Len(both) : head = SubSeq(both, k + 1, Len(both))

C22_CrossfadeDelivered ==
    [][(pair_mixed /\ mixer.last_fadeout_data # <<>> /\ mixer.cur_chunk <= 1
            /\ worker.pair[2] # <<>>) =>
          IF mixer.cur_chunk = 0 /\ ~worker.pair[1]
          THEN forwarded = <<>> /\ mixer'.last_fadeout_data = mixer.last_fadeout_data
          ELSE /\ mixer'.last_fadeout_data = <<>>
               /\ \E k \in 0..Len(mixer.prev_chunk \o worker.pair[2]) :
                     LET head == SubSeq(mixer.prev_chunk \o worker.pair[2], k + 1,
                                        Len(mixer.prev_chunk \o worker.pair[2]))
                     IN forwarded =
                            crossfade_pcm_parts(slice_to(head, fade_bytes),
                                                mixer.last_fadeout_data)
                                \o slice_from(head, fade_bytes)]_vars

\* C23: whenever the crossfade is about to be invoked (the second pair of an
\* item has arrived while a pending tail exists), the pending tail and, for
\* every outcome of the silence strip, the fade-in part are fade_bytes long.
crossfade_due ==
    /\ request.mode = "queue"
    /\ worker.pc = "got"
    /\ mixer.cur_chunk = 1
    /\ mixer.last_fadeout_data # <<>>

C23_CrossfadeInputLengths ==
    crossfade_due =>
        /\ Len(mixer.last_fadeout_data) = fade_bytes
        /\ \A k \in 0..Len(mixer.prev_chunk \o worker.pair[2]) :
              Len(slice_to(first_part(mixer.prev_chunk \o worker.pair[2], k),
                           fade_bytes)) = fade_bytes

\* C24: with crossfade disabled, the step that mixes the terminal pair of an
\* item forwards the buffered audio less its trailing silence, and with it
\* every byte of the item but that silence has been written to the encoder.
C24_PlainConcatenation ==
    [][(pair_mixed /\ ~request.crossfade_enabled /\ worker.pair[1]) =>
          \E k \in 0..Len(mixer.prev_chunk \o worker.pair[2]) :
              LET both == mixer.prev_chunk \o worker.pair[2]
              IN /\ forwarded = last_part(both, k)
                 /\ mixer'.bytes_written
                        = gen.sent - (Len(both) - Len(last_part(both, k)))]_vars

\* C25: the duration of a queue item is overwritten, with the bytes written
\* for it divided by sample_rate * 2 channels * 4 bytes, by the step that
\* ends the item with the cancel flag not set, and by no other step.
item_ends ==
    /\ request.mode = "queue"
    /\ worker.pc = "exhausted"
    /\ worker'.pc # "exhausted"

C25_DurationCorrection ==
    [][IF item_ends /\ ~cancelled
       THEN mixer'.duration =
                [mixer.duration EXCEPT ![mixer.item] =
                    divided(mixer.bytes_written, mixer.sample_rate * 2 * 4)]
       ELSE mixer'.duration = mixer.duration]_vars

C25_Witness ==
    /\ cancelled
    /\ worker.pc = "q_flush"
    /\ mixer.item = 2
    /\ gen.pc = "stopped"
    /\ mixer.duration[1] # metadata_duration
    /\ mixer.duration[2] = metadata_duration

\* C26: the sample rate of a queue stream is 96000 when max_sample_rate is
\* absent, no number, below 44100 or above 384000, and max_sample_rate
\* otherwise; every item's source pipeline is asked for that rate.
queue_stream_started == request.mode = "queue" /\ worker.pc \notin {"none", "q_start"}

C26_SampleRate ==
    queue_stream_started =>
        /\ (mixer.max_sample_rate = 0 \/ mixer.max_sample_rate < 44100
                \/ mixer.max_sample_rate > 384000) => mixer.sample_rate = 96000
        /\ (mixer.max_sample_rate >= 44100 /\ mixer.max_sample_rate <= 384000)
                => mixer.sample_rate = mixer.max_sample_rate
        /\ gen.pc # "none" => gen.resample = mixer.sample_rate

C26_Witness ==
    /\ queue_stream_started
    /\ mixer.max_sample_rate = 384000
    /\ mixer.item = 2
    /\ gen.pc = "stopped"
    /\ gen.sent > 0

\* C27: a request for an unknown player is answered 404 "Player not found",
\* one for an unknown queue item in single item mode 404 "Invalid Queue item
\* Id"; a request answered 404 has no prepared response, no worker and no
\* helper or encoder process.
C27_NotFound ==
    request.pc # "none" =>
        /\ ~request.player =>
              request.status = 404 /\ request.reason = "Player not found"
        /\ (request.player /\ request.mode = "item" /\ ~request.queue_item) =>
              request.status = 404 /\ request.reason = "Invalid Queue item Id"
        /\ request.status = 404 =>
              /\ ~resp.prepared
              /\ worker = NoWorker
              /\ gen = NoGen
              /\ sox_proc = NoProc
              /\ fill_buffer_thread = NoThread

C27_Witness ==
    /\ request.status = 404
    /\ request.mode = "item"
    /\ request.reason = "Invalid Queue item Id"

\* A step in which a DACP request is handled.
dacp_handled == dacp' # dacp /\ dacp'.path # "" /\ dacp'.task[1] # "done"

\* C28: every DACP request handled was answered 204 with Content-Length 0.
C28_Always204 ==
    dacp.path # "" => dacp.response = "HTTP/1.0 204 No Content, Content-Length: 0"

\* C29: a request is routed to every player whose active stream has its
\* Active-Remote, with the task the path table assigns, and to no player
\* when there is none.
path_table ==
    [path \in command_paths \ {"/ctrl-int/1/getproperty"} |->
        CASE path = "/ctrl-int/1/nextitem" -> "player_queues.next"
          [] path = "/ctrl-int/1/previtem" -> "player_queues.previous"
          [] path = "/ctrl-int/1/play" -> "player_queues.play"
          [] path = "/ctrl-int/1/playpause" -> "player_queues.play_pause"
          [] path = "/ctrl-int/1/stop" -> "cmd_stop"
          [] path = "/ctrl-int/1/volumeup" -> "players.cmd_volume_up"
          [] path = "/ctrl-int/1/volumedown" -> "players.cmd_volume_down"
          [] path = "/ctrl-int/1/shuffle_songs" -> "player_queues.set_shuffle"
          [] OTHER -> "player_queues.pause"]

session_players(active_remote) ==
    {q \in Players : /\ active_stream[q] # NoStream
                      /\ jobs[active_stream[q]].rid = active_remote}

C29_Routing ==
    [][dacp_handled =>
          /\ session_players(dacp'.active_remote) = {} =>
                dacp'.player = None /\ dacp'.task[1] = "none"
          /\ \A q \in session_players(dacp'.active_remote) :
                /\ dacp'.player = q
                /\ dacp'.path \in DOMAIN path_table =>
                      dacp'.task[1] = path_table[dacp'.path]]_vars

\* C30: a volume request matched to a player creates the cmd_volume_set task
\* if and only if the requested volume (remapped for dmcp.device-volume)
\* differs from the player's volume_level by more than 2.
requested_volume(d) ==
    IF d.path = device_volume_path THEN convert_airplay_volume(d.value) ELSE d.value

C30_VolumeDebounce ==
    [][(dacp_handled /\ dacp'.player # None
            /\ dacp'.path \in {device_volume_path, volume_path}) =>
          LET delta == requested_volume(dacp') - volume_level[dacp'.player]
          IN (dacp'.task = <<"cmd_volume_set", requested_volume(dacp')>>)
                <=> (delta > 2 \/ delta < -2)]_vars

C30_Witness ==
    /\ dacp.path = device_volume_path
    /\ dacp.player # None
    /\ dacp.task[1] = "none"
    /\ volume_level[dacp.player] = 18

\* C33: every stream job is created with an active_remote_id in the
\* half-open range 1000 <= id < 8000.
C33_RemoteIdRange ==
    \A j \in JobIds :
        created(j) => jobs[j].rid >= 1000 /\ jobs[j].rid < 8000

\* C35: a superseded driver never touches the player: once another stream job
\* is the active_stream of the player, a step of the old job's log watcher
\* (a stderr line, or the end of stderr) leaves the player's state as it is.
superseded(j) ==
    /\ created(j)
    /\ active_stream[j[2]] # NoStream
    /\ active_stream[j[2]] # j

log_watcher_step(j) ==
    \/ log_watcher_eof(j)
    \/ \E st \in {"playing", "paused"} : log_watcher_line(j, st)

C35_SupersededIsSilent ==
    [][\A j \in JobIds :
          superseded(j) /\ log_watcher_step(j) => player_state' = player_state]_vars

\* C36: group membership is consistent: after any sequence of cmd_sync and
\* cmd_unsync, p.synced_to = L exactly when p is in L.group_childs.
C36_GroupConsistent ==
    \A p \in Players, l \in Players :
        synced_to[p] = l <=> p \in group_childs[l]

\* C37: a rejected play_stream changes nothing: no step of a play_stream call
\* that ends in "Unsupported PCM format" changes the player's state, its
\* active stream or any stream job.
rejected_step(n) ==
    /\ calls[n].then = "raise"
    /\ calls'[n] # calls[n]

C37_RejectedChangesNothing ==
    [][\A n \in CallIds :
          rejected_step(n) => UNCHANGED <<player_state, active_stream, jobs>>]_vars

\* C34: no chunk is lost by the mixer: the step that mixes the terminal pair
\* of an item, with the cancel flag not set, forwards the pair's chunk,
\* consumes it in the trim or the crossfade, or stores it as the pending
\* tail; it never leaves the chunk in prev_chunk, where nothing reads it
\* before the next item resets it.
C34_NoChunkLost ==
    [][(pair_mixed /\ ~cancelled /\ worker.pair[1] /\ worker.pair[2] # <<>>) =>
          mixer'.prev_chunk # worker.pair[2]]_vars

\* C32: during a session a metadata push is scheduled exactly when, after a
\* chunk was sent, the checksum (stream_title, else queue_item_id) of the
\* queue's current item differs from the checksum of the previous push (the
\* empty string before the first push): once per change, and never while the
\* checksum is unchanged between consecutive chunks.
chunk_sent(t) == tasks[t].pc = "fan" /\ tasks'[t].pc = "iter"

last_push(t) ==
    IF send_metadata[t] = <<>> THEN "" ELSE send_metadata[t][Len(send_metadata[t])]

C32_MetadataOnChange ==
    [][\A t \in CallIds :
          LET item == current_item[tasks[t].player] IN
          IF chunk_sent(t) /\ item # NoItem /\ metadata_checksum(item) # last_push(t)
          THEN send_metadata'[t] = Append(send_metadata[t], metadata_checksum(item))
          ELSE send_metadata'[t] = send_metadata[t]]_vars

C32_Witness ==
    \E t \in CallIds :
        /\ tasks[t].pc = "iter"
        /\ tasks[t].consumed = 2
        /\ Len(send_metadata[t]) = 2

\* C38: volume persistence round trip: after cmd_volume_set(p, v), with v in
\* 0..100, volume_level and the cached previous volume are v, and a later
\* discovery of the player sets it up with volume_level = v; the fallback
\* volume is used only while nothing was ever stored.
C38_VolumeRoundTrip ==
    \A p \in Players :
        volume_level[p] = IF cache[p] = <<>> THEN FALLBACK_VOLUME ELSE cache[p][1]

\* C39: every volume a DACP request writes lies in 0..100, whatever number
\* follows dmcp.device-volume= or dmcp.volume=.
C39_VolumeInRange ==
    dacp.task[1] = "cmd_volume_set" => (dacp.task[2] >= 0 /\ dacp.task[2] <= 100)

\* C31: analyser idempotence: of the analysis jobs started for the same
\* (item_id, provider), at most one at a time is past the in-flight check of
\* line 371 and has not ended.
past_check(i) == analysers[i].pc \in {"checked", "marked", "analyzing", "pop"}

C31_OneAnalyserPerKey ==
    \A i \in 1..Len(analysers), j \in 1..Len(analysers) :
        (i # j /\ analysers[i].key = analysers[j].key)
            => ~(past_check(i) /\ past_check(j))

\* C40: the in-flight analysis entry never outlives its job: a key is in
\* analyze_jobs only while a job that entered it is still running, whether
\* the job succeeds or fails.
C40_EntryEndsWithJob ==
    \A key \in analyze_jobs :
        \E i \in 1..Len(analysers) :
            /\ analysers[i].key = key
            /\ analysers[i].pc \in {"marked", "analyzing", "pop"}

====
